---------------------------- MODULE Spec2Model ----------------------------
(***************************************************************************)
(* A model of the UUV communication simulator: the vehicle state and its   *)
(* safety-checked command execution (models/game_state.py), the binary     *)
(* packet protocol (protocol/packet_formatter.py), the acoustic link       *)
(* (models/communication_model.py) and the tick engine with its mission    *)
(* planner (models/simulation_controller.py).                              *)
(*                                                                         *)
(* Numbers.  The program computes in IEEE doubles; the model computes in   *)
(* exact fixed point:                                                      *)
(*   positions (x, y, z, object coordinates)   decimetres                   *)
(*   depth, command parameters                 metres                      *)
(*   heading, turn amounts                     whole degrees               *)
(*   cos / sin                                 thousandths (Cos1000)       *)
(*   pressure                                  1/40 mbar                   *)
(*   temperature, turbidity, current, oxygen   thousandths                 *)
(*   light_level                               held as 20*ln(light/100),   *)
(*                                             which the code sets to      *)
(*                                             -depth                      *)
(*   random.random()                           k/RngModulus, k the state   *)
(*                                             of a full-period generator  *)
(*   time.time(), delays, timestamps           1e-4 s                      *)
(*   decibels                                  tenths of a dB              *)
(*   probabilities                             1e-5                        *)
(***************************************************************************)
EXTENDS Integers, Sequences, FiniteSets, TLC

VARIABLES
    submarine,   \* GameState.submarine, the Submarine dataclass instance
    objects,     \* GameState.objects, the DetectableObject list
    game,        \* the other fields of GameState
    rng,         \* state of the process-wide `random` module
    ret,         \* what the last operation returned (or that it raised)
    steps,       \* number of operations performed so far (bounded)
    packet,      \* the packet last built and its bytes as they are on the link
    decoded,     \* what the last parse of those bytes returned (or raised)
    comm,        \* the UnderwaterCommunicationModel instance
    transmission,\* the PacketTransmission last returned by simulate_transmission
    decision,    \* loss_prob, loss_reason and the deciding draw of the last
                 \* simulate_transmission
    clock,       \* the host's wall clock, what time.time() returns
    planner,     \* the MissionPlanner instance
    controller,  \* the SimulationController's statistics and timing fields
    events,      \* SimulationController.events, the run-wide event log
    run,         \* run_simulation: configuration, loop variables, phase
    prev,        \* the log and report of the run made before with this seed
    report,      \* what run_simulation returned
    other        \* a second SimulationController of the same process

vehicleVars == <<submarine, objects, game>>
packetVars == <<packet, decoded>>
linkVars == <<comm, transmission, decision>>

engineVars == <<planner, controller, events, run, prev, report, other>>

vars == <<submarine, objects, game, rng, ret, steps, packet, decoded, comm,
          transmission, decision, clock, planner, controller, events, run, prev, report,
          other>>

-----------------------------------------------------------------------------
(* Bounds of the model *)

\* operations explored from each initial state
MaxSteps == 3

-----------------------------------------------------------------------------
(* Program constants *)

\* CommandCode members defined by protocol/packet_formatter.py
MOVE == 1
TURN == 2
STOP == 3
\* CommandCode members that game_state.py and simulation_controller.py use
\* (CommandCode.ASCEND, .DESCEND, .REPORT_STATUS); packet_formatter.py under
\* src/ does not define them, the values follow the enumeration order of §4.1
ASCEND == 4
DESCEND == 5
REPORT_STATUS == 6

\* Submarine dataclass defaults
max_depth == 200
min_depth == 0
detection_range == 50
speed == 5
turn_rate == 10
ascent_descent_rate == 2
max_safe_distance_from_ship == 2000
\* is_safe_to_execute_command: world_boundary = 400.0
world_boundary == 400

\* math.exp raises OverflowError above 709.78: -depth/20 > 709.78
ExpOverflowDepth == -14196

\* modulus and increment of the generator standing for random.random()
RngModulus == 360
RngIncrement == 131

INT16_MIN == -32768
INT16_MAX == 32767

-----------------------------------------------------------------------------
(* Arithmetic helpers *)

Abs(n) == IF n < 0 THEN -n ELSE n
Min(a, b) == IF a <= b THEN a ELSE b
Max(a, b) == IF a >= b THEN a ELSE b

\* F applied to the value of v: a local variable assigned once and read after
Bind(v, F(_)) == CHOOSE r \in {F(x) : x \in {v}} : TRUE

\* n / d rounded to the nearest integer, halves away from zero (d > 0)
RoundDiv(n, d) == IF n >= 0 THEN (2 * n + d) \div (2 * d)
                           ELSE -((2 * (-n) + d) \div (2 * d))

\* 1000 * cos(d degrees) for d in 0..90, rounded
CosTable ==
  << 1000, 1000, 999, 999, 998, 996, 995, 993, 990, 988, 985, 982, 978, 974, 970,
     966, 961, 956, 951, 946, 940, 934, 927, 921, 914, 906, 899, 891, 883, 875,
     866, 857, 848, 839, 829, 819, 809, 799, 788, 777, 766, 755, 743, 731, 719,
     707, 695, 682, 669, 656, 643, 629, 616, 602, 588, 574, 559, 545, 530, 515,
     500, 485, 469, 454, 438, 423, 407, 391, 375, 358, 342, 326, 309, 292, 276,
     259, 242, 225, 208, 191, 174, 156, 139, 122, 105, 87, 70, 52, 35, 17, 0 >>

\* math.cos(math.radians(h)) * 1000, any integer h
Cos1000(h) ==
  LET a == h % 360 IN
    IF a <= 90 THEN CosTable[a + 1]
    ELSE IF a <= 180 THEN -CosTable[180 - a + 1]
    ELSE IF a <= 270 THEN -CosTable[a - 180 + 1]
    ELSE CosTable[360 - a + 1]

\* math.sin(math.radians(h)) * 1000
Sin1000(h) == Cos1000(h - 90)

\* dist metres along the axis whose direction cosine is c1000/1000, in dm
DispDm(dist, c1000) == RoundDiv(dist * c1000, 100)

\* math.sqrt(nx^2 + ny^2) > limit (nx, ny, limit in dm); the squares are only
\* formed when both legs are within the limit, a leg beyond it decides alone
HypotExceeds(nx, ny, limit) ==
  IF Abs(nx) > limit \/ Abs(ny) > limit THEN TRUE
  ELSE nx * nx + ny * ny > limit * limit

-----------------------------------------------------------------------------
(* The `random` module: one process-wide stream *)

\* the generator's next state: an additive generator of full period
RngNext(s) == (s + RngIncrement) % RngModulus

\* state after n draws
RngAfter(s, n) == (s + n * RngIncrement) % RngModulus

\* random.uniform(a, b) = a + (b - a) * random(), for the draw k/RngModulus,
\* a and b in the caller's fixed-point unit
Uniform(a, b, k) == a + ((b - a) * k) \div RngModulus

-----------------------------------------------------------------------------
(* EnvironmentalSensors and Submarine (game_state.py) *)

VehicleStates == {"idle", "moving", "turning", "ascending", "descending", "stopped"}

\* EnvironmentalSensors(): the dataclass defaults (light_level 0.0 has no
\* logarithm: it is held as a number below every -depth)
DefaultSensors ==
  [ water_temperature |-> 15000, pressure |-> 40530, light_level |-> -2000000000,
    turbidity |-> 1000, current_speed |-> 0, current_direction |-> 0,
    salinity |-> 35000, ph_level |-> 8100, dissolved_oxygen |-> 6500 ]

\* EnvironmentalSensors.update_from_depth: the assignments in program order.
\* math.exp(-depth / 20.0) raises OverflowError for depth <= ExpOverflowDepth;
\* the two assignments before it have then been made and nothing after it.
\* Returns the sensors, the generator state and whether the call raised.
UpdateFromDepth(sensors, depth, g) ==
  LET temp     == IF depth < 30 THEN 15000 - depth * 100
                  ELSE 12000 - (depth - 30) * 50
      s1       == [sensors EXCEPT !.water_temperature = temp,
                                  !.pressure = 40530 + depth * 4053]
      k1       == RngNext(g)
      k2       == RngNext(k1)
      k3       == RngNext(k2)
      turb     == Max(100, 1000 + depth * 10 + Uniform(-500, 500, k1))
      s2       == [s1 EXCEPT !.light_level = -depth,
                             !.turbidity = turb,
                             !.current_speed = Uniform(100, 800, k2) + depth * 5,
                             !.current_direction = Uniform(0, 360, k3),
                             !.dissolved_oxygen = Max(2000, 8000 - depth * 20)]
  IN IF depth <= ExpOverflowDepth
       THEN [sensors |-> s1, rng |-> g, raised |-> TRUE]
       ELSE [sensors |-> s2, rng |-> k3, raised |-> FALSE]

\* Submarine.update_sensors: update_from_depth, then update_pressure
UpdateSensors(sub, g) ==
  LET u == UpdateFromDepth(sub.sensors, sub.depth, g)
  IN IF u.raised
       THEN [sub |-> [sub EXCEPT !.sensors = u.sensors], rng |-> u.rng,
             raised |-> TRUE]
       ELSE [sub |-> [sub EXCEPT !.sensors = u.sensors,
                                 !.pressure = 40530 + sub.depth * 4053],
             rng |-> u.rng, raised |-> FALSE]

\* Submarine(position=Position(x, y, z), heading=, depth=) and __post_init__
NewSubmarine(x, y, z, heading, depth, g) ==
  UpdateSensors([ x |-> x, y |-> y, z |-> z, heading |-> heading,
                  depth |-> depth, pressure |-> 0, state |-> "idle",
                  sensors |-> DefaultSensors,
                  max_safe_distance_from_ship |-> max_safe_distance_from_ship ],
                g)

\* a safety check that lets every command through
IsSafe_Unchecked(sub, cmd, param) == <<TRUE, "safe_to_execute">>

\* Submarine.is_safe_to_execute_command: <<is_safe, reason>>; the reason is
\* the text before the formatted number
IsSafeToExecuteCommand(sub, cmd, param) ==
  IF cmd = MOVE THEN
    LET new_x == sub.x + DispDm(param, Cos1000(sub.heading))
        new_y == sub.y + DispDm(param, Sin1000(sub.heading))
    IN IF HypotExceeds(new_x, new_y, sub.max_safe_distance_from_ship * 10)
         THEN <<FALSE, "move_would_exceed_safe_distance">>
       ELSE IF Abs(new_x) > world_boundary * 10 \/ Abs(new_y) > world_boundary * 10
         THEN <<FALSE, "move_would_exceed_world_bounds">>
       ELSE <<TRUE, "safe_to_execute">>
  ELSE IF cmd = DESCEND THEN
    IF sub.depth + param > max_depth
      THEN <<FALSE, "descend_would_exceed_max_depth">>
      ELSE <<TRUE, "safe_to_execute">>
  ELSE IF cmd = ASCEND THEN
    IF sub.depth - param < min_depth
      THEN <<FALSE, "ascend_would_exceed_min_depth">>
      ELSE <<TRUE, "safe_to_execute">>
  ELSE <<TRUE, "safe_to_execute">>

\* the value execute_command hands back
Outcome(sub, g, accepted, reason, raised) ==
  [sub |-> sub, rng |-> g, accepted |-> accepted, reason |-> reason,
   raised |-> raised]

\* a branch that also writes the new depth to position.z
AfterUpdateSensors_DepthToZ(sub, g, reason) ==
  LET u == UpdateSensors([sub EXCEPT !.z = sub.depth * 10], g)
  IN IF u.raised THEN Outcome(u.sub, u.rng, FALSE, "OverflowError", TRUE)
                 ELSE Outcome(u.sub, u.rng, TRUE, reason, FALSE)

\* a branch of execute_command that mutates and then calls update_sensors
AfterUpdateSensors(sub, g, reason) ==
  LET u == UpdateSensors(sub, g)
  IN IF u.raised THEN Outcome(u.sub, u.rng, FALSE, "OverflowError", TRUE)
                 ELSE Outcome(u.sub, u.rng, TRUE, reason, FALSE)

\* a TURN that does not wrap the heading
TurnedHeading_NoWrap(heading, param) ==
  heading + Max(-turn_rate, Min(turn_rate, param))

\* the TURN branch of execute_command: the turn clamped to the turn rate,
\* heading = (heading + turn_amount) % 360
TurnedHeading(heading, param) ==
  (heading + Max(-turn_rate, Min(turn_rate, param))) % 360

\* an execute_command that marks the vehicle stopped before it checks
ExecuteCommand_StopsFirst(sub, g, cmd, param) ==
  LET safe == IsSafeToExecuteCommand(sub, cmd, param)
      stopped == [sub EXCEPT !.state = "stopped"]
  IN IF ~safe[1] THEN Outcome(stopped, g, FALSE, safe[2], FALSE)
     ELSE Outcome(stopped, g, cmd = STOP, "command_not_executed", FALSE)

\* Submarine.execute_command(cmd, param, ship_position)
ExecuteCommand(sub, g, cmd, param) ==
  LET safe == IsSafeToExecuteCommand(sub, cmd, param)
      idle == sub.state \in {"idle", "stopped"}
      rejected == Outcome(sub, g, FALSE, "command_not_executed", FALSE)
  IN
  IF ~safe[1] THEN Outcome(sub, g, FALSE, safe[2], FALSE)
  ELSE IF cmd = MOVE THEN
    IF idle
      THEN LET distance == Min(param, speed)
           IN AfterUpdateSensors(
                [sub EXCEPT !.state = "moving",
                            !.x = @ + DispDm(distance, Cos1000(sub.heading)),
                            !.y = @ + DispDm(distance, Sin1000(sub.heading))],
                g, "move_executed")
      ELSE rejected
  ELSE IF cmd = TURN THEN
    IF idle
      THEN Outcome([sub EXCEPT !.state = "turning",
                               !.heading = TurnedHeading(@, param)],
                   g, TRUE, "turn_executed", FALSE)
      ELSE rejected
  ELSE IF cmd = STOP THEN
    Outcome([sub EXCEPT !.state = "stopped"], g, TRUE, "stop_executed", FALSE)
  ELSE IF cmd = ASCEND THEN
    IF sub.depth > min_depth
      THEN LET ascent == Min(param, ascent_descent_rate)
           IN AfterUpdateSensors(
                [sub EXCEPT !.state = "ascending",
                            !.depth = Max(min_depth, @ - ascent)],
                g, "ascend_executed")
      ELSE rejected
  ELSE IF cmd = DESCEND THEN
    IF sub.depth < max_depth
      THEN LET descent == Min(param, ascent_descent_rate)
           IN AfterUpdateSensors(
                [sub EXCEPT !.state = "descending",
                            !.depth = Min(max_depth, @ + descent)],
                g, "descend_executed")
      ELSE rejected
  ELSE IF cmd = REPORT_STATUS THEN
    Outcome(sub, g, TRUE, "status_report_requested", FALSE)
  ELSE rejected

-----------------------------------------------------------------------------
(* GameState (game_state.py) *)

\* math.sqrt, rounded down: bisection on lo..hi, lo*lo <= n < (hi+1)*(hi+1)
Isqrt(n) ==
  LET In[lo \in Nat, hi \in Nat] ==
        IF lo >= hi THEN lo
        ELSE IF ((lo + hi + 1) \div 2) * ((lo + hi + 1) \div 2) <= n
          THEN In[(lo + hi + 1) \div 2, hi]
          ELSE In[lo, (lo + hi + 1) \div 2 - 1]
  IN In[0, 46340]

\* Position.distance_to between (x1,y1,z1) and (x2,y2,z2), squared, in dm^2
Dist3Sq(x1, y1, z1, x2, y2, z2) ==
  (x1 - x2) * (x1 - x2) + (y1 - y2) * (y1 - y2) + (z1 - z2) * (z1 - z2)

\* random.randint(a, b) for the draw k/RngModulus
RandInt(a, b, k) == a + ((b - a + 1) * k) \div RngModulus

ObjTypes == <<"wreck", "rock", "debris", "mine", "artifact">>

\* GameState._generate_objects: object i + 1 is built from five draws (angle,
\* distance, z, type, size) that follow the generator state g
GenObject(i, g) ==
  LET k1 == RngNext(g)
      k2 == RngNext(k1)
      k3 == RngNext(k2)
      k4 == RngNext(k3)
      k5 == RngNext(k4)
      angle    == Uniform(0, 360, k1)
      distance == Uniform(200, Min(400, 800) * 10, k2)
  IN [ id |-> i + 1,
       x |-> RoundDiv(distance * Cos1000(angle), 1000),
       y |-> RoundDiv(distance * Sin1000(angle), 1000),
       z |-> Uniform(50, 1000, k3),
       object_type |-> ObjTypes[RandInt(1, 5, k4)],
       size |-> Uniform(1000, 5000, k5),
       detected |-> FALSE ]

\* the list of n objects, the generator being at g before the first
GenObjects(n, g) ==
  [i \in 1..n |-> GenObject(i - 1, RngAfter(g, 5 * (i - 1)))]

\* GameState.__init__(world_size), the generator being at state seed
NewGameState(world_size, seed) ==
  LET k1 == RngNext(seed)
      k2 == RngNext(k1)
      k3 == RngNext(k2)
      k4 == RngNext(k3)
      k5 == RngNext(k4)
      made == NewSubmarine(Uniform(-500, 500, k1), Uniform(-500, 500, k2),
                           Uniform(100, 500, k3), Uniform(0, 360, k4),
                           Uniform(10, 50, k5), k5)
      k6 == RngNext(made.rng)
      num_objects == RandInt(5, 15, k6)
      g7 == RngAfter(k6, 5 * num_objects)
      k8 == RngNext(g7)
      k9 == RngNext(k8)
  IN [ submarine |-> made.sub,
       objects |-> GenObjects(num_objects, k6),
       game |-> [ world_size |-> world_size, tick |-> 0,
                  objects_detected |-> 0, total_distance_traveled |-> 0,
                  last_position |-> <<made.sub.x, made.sub.y, made.sub.z>>,
                  sea_state |-> RandInt(1, 4, k8),
                  water_temperature |-> 15000 + Uniform(-3000, 3000, k9) ],
       rng |-> k9 ]

\* a detection that flags the objects in range and clears the others
DetectObjects_InRangeNow(sub, objs) ==
  [i \in DOMAIN objs |->
     [objs[i] EXCEPT !.detected =
        Dist3Sq(sub.x, sub.y, sub.z, objs[i].x, objs[i].y, objs[i].z)
          <= (detection_range * 10) * (detection_range * 10)]]

\* Submarine.detect_objects: the objects with every one in range flagged
DetectObjects(sub, objs) ==
  [i \in DOMAIN objs |->
     IF Dist3Sq(sub.x, sub.y, sub.z, objs[i].x, objs[i].y, objs[i].z)
          <= (detection_range * 10) * (detection_range * 10)
       THEN [objs[i] EXCEPT !.detected = TRUE]
       ELSE objs[i]]

\* the objects detect_objects returns (in range now), by index
InRange(sub, objs) ==
  {i \in DOMAIN objs :
     Dist3Sq(sub.x, sub.y, sub.z, objs[i].x, objs[i].y, objs[i].z)
       <= (detection_range * 10) * (detection_range * 10)}

\* an update_tick that leaves the operating state the command set
UpdateTick_KeepsState(sub, objs, gm, g) ==
  LET distance_moved ==
        Isqrt(Dist3Sq(gm.last_position[1], gm.last_position[2],
                      gm.last_position[3], sub.x, sub.y, sub.z))
      objs2 == DetectObjects(sub, objs)
      count == Cardinality({i \in DOMAIN objs2 : objs2[i].detected})
      env  == gm.tick % 100 = 0
      k1 == RngNext(g)
      k2 == RngNext(k1)
  IN [ submarine |-> sub,
       objects |-> objs2,
       game |-> [gm EXCEPT
                  !.total_distance_traveled = @ + distance_moved,
                  !.last_position = <<sub.x, sub.y, sub.z>>,
                  !.objects_detected =
                     IF InRange(sub, objs) # {} THEN count ELSE @,
                  !.sea_state =
                     IF env THEN Max(1, Min(6, @ + RandInt(-1, 1, k1))) ELSE @,
                  !.water_temperature =
                     IF env THEN @ + Uniform(-100, 100, k2) ELSE @,
                  !.tick = @ + 1],
       rng |-> IF env THEN k2 ELSE g ]

\* GameState.update_tick: <<submarine, objects, game, rng>> after the call
UpdateTick(sub, objs, gm, g) ==
  LET distance_moved ==
        Isqrt(Dist3Sq(gm.last_position[1], gm.last_position[2],
                      gm.last_position[3], sub.x, sub.y, sub.z))
      objs2 == DetectObjects(sub, objs)
      count == Cardinality({i \in DOMAIN objs2 : objs2[i].detected})
      sub2 == IF sub.state \in {"moving", "turning", "ascending", "descending"}
                THEN [sub EXCEPT !.state = "idle"] ELSE sub
      env  == gm.tick % 100 = 0
      k1 == RngNext(g)
      k2 == RngNext(k1)
  IN [ submarine |-> sub2,
       objects |-> objs2,
       game |-> [gm EXCEPT
                  !.total_distance_traveled = @ + distance_moved,
                  !.last_position = <<sub.x, sub.y, sub.z>>,
                  !.objects_detected =
                     IF InRange(sub, objs) # {} THEN count ELSE @,
                  !.sea_state =
                     IF env THEN Max(1, Min(6, @ + RandInt(-1, 1, k1))) ELSE @,
                  !.water_temperature =
                     IF env THEN @ + Uniform(-100, 100, k2) ELSE @,
                  !.tick = @ + 1],
       rng |-> IF env THEN k2 ELSE g ]

\* GameState.is_submarine_in_bounds (world_size in metres)
IsSubmarineInBounds(sub, gm) ==
  LET safe_boundary == (gm.world_size * 10) \div 2 - gm.world_size
  IN /\ Abs(sub.x) <= safe_boundary
     /\ Abs(sub.y) <= safe_boundary
     /\ 0 <= sub.z /\ sub.z <= max_depth * 10

\* GameState.get_communication_distance: 2D distance ship - submarine, dm
CommunicationDistance(sub) == Isqrt(sub.x * sub.x + sub.y * sub.y)

-----------------------------------------------------------------------------
(* PacketFormatter (protocol/packet_formatter.py): packets are byte sequences *)

\* the members of CommandCode as packet_formatter.py defines the enumeration
CommandCodeMembers == {MOVE, TURN, STOP}

\* struct.pack('>H', v): two bytes, big endian
U16Bytes(v) == <<v \div 256, v % 256>>

\* struct.pack('>h', v): two's complement
I16Bytes(v) == U16Bytes(IF v < 0 THEN v + 65536 ELSE v)

\* struct.unpack('>H', two bytes)
ToU16(hi, lo) == hi * 256 + lo

\* struct.unpack('>h', two bytes)
ToI16(hi, lo) == IF ToU16(hi, lo) >= 32768 THEN ToU16(hi, lo) - 65536
                 ELSE ToU16(hi, lo)

\* the sequence numbers as their bytes, in order (the loop over the list)
SeqsBytes(seqs) ==
  [i \in 1..(2 * Len(seqs)) |->
     IF i % 2 = 1 THEN seqs[(i + 1) \div 2] \div 256 ELSE seqs[i \div 2] % 256]

\* a checksum that covers the header only
Crc16_HeaderOnly(data) == (data[1] + data[2] + data[3] + data[4]) % 65536

\* PacketFormatter._crc16: sum(data) & 0xFFFF
Crc16(data) ==
  LET Sum[i \in 0..Len(data)] == IF i = 0 THEN 0 ELSE Sum[i - 1] + data[i]
  IN Sum[Len(data)] % 65536

\* struct.pack accepts the value for format B, H, h
FitsB(v) == 0 <= v /\ v <= 255
FitsH(v) == 0 <= v /\ v <= 65535
Fitsh(v) == INT16_MIN <= v /\ v <= INT16_MAX

\* PacketFormatter.build_cmd_packet: the bytes, or struct.error
BuildCmdPacket(cmd_code, param, missing_status_seqs) ==
  IF ~(FitsB(cmd_code) /\ Fitsh(param) /\ FitsB(Len(missing_status_seqs))
       /\ \A i \in DOMAIN missing_status_seqs : FitsH(missing_status_seqs[i]))
    THEN [raised |-> "struct.error", bytes |-> <<>>]
    ELSE LET body == <<cmd_code>> \o I16Bytes(param)
                       \o <<Len(missing_status_seqs)>>
                       \o SeqsBytes(missing_status_seqs)
         IN [raised |-> "", bytes |-> body \o U16Bytes(Crc16(body))]

\* what a parse hands back: the decoded fields in declaration order, or the
\* exception it raised
Parsed(op, raised, fields, missing, crc_valid) ==
  [op |-> op, raised |-> raised, fields |-> fields, missing |-> missing,
   crc_valid |-> crc_valid]

\* the sequence numbers read by the loop `for _ in range(miss_count)`
ReadSeqs(data, header_size, miss_count) ==
  [i \in 1..miss_count |->
     ToU16(data[header_size + 2 * i - 1], data[header_size + 2 * i])]

\* PacketFormatter.parse_cmd_packet; fields are <<command, param>>.  A slice
\* shorter than its format makes struct.unpack raise; CommandCode(cmd_code)
\* raises ValueError for a value that is no member.
ParseCmdPacket(data) ==
  LET op == "parse_cmd_packet" IN
  IF Len(data) < 4 THEN Parsed(op, "struct.error", <<>>, <<>>, FALSE)
  ELSE
    LET cmd_code == data[1]
        param == ToI16(data[2], data[3])
        miss_count == data[4]
        offset == 4 + 2 * miss_count
    IN IF offset + 2 > Len(data)
         THEN Parsed(op, "struct.error", <<>>, <<>>, FALSE)
       ELSE IF cmd_code \notin CommandCodeMembers
         THEN Parsed(op, "ValueError", <<>>, <<>>, FALSE)
       ELSE Parsed(op, "", <<cmd_code, param>>, ReadSeqs(data, 4, miss_count),
                   ToU16(data[offset + 1], data[offset + 2])
                     = Crc16(SubSeq(data, 1, offset)))

\* PacketFormatter.build_status_packet: the bytes, or struct.error
BuildStatusPacket(status, depth, pressure, missing_cmd_seqs, x, y, z, heading) ==
  IF ~(FitsB(status) /\ FitsH(depth) /\ FitsH(pressure)
       /\ FitsB(Len(missing_cmd_seqs))
       /\ (\A i \in DOMAIN missing_cmd_seqs : FitsH(missing_cmd_seqs[i]))
       /\ Fitsh(x) /\ Fitsh(y) /\ Fitsh(z) /\ Fitsh(heading))
    THEN [raised |-> "struct.error", bytes |-> <<>>]
    ELSE LET body == <<status>> \o U16Bytes(depth) \o U16Bytes(pressure)
                       \o <<Len(missing_cmd_seqs)>> \o SeqsBytes(missing_cmd_seqs)
                       \o I16Bytes(x) \o I16Bytes(y) \o I16Bytes(z)
                       \o I16Bytes(heading)
         IN [raised |-> "", bytes |-> body \o U16Bytes(Crc16(body))]

\* PacketFormatter.parse_status_packet; fields are
\* <<status, depth, pressure, x, y, z, heading>>
ParseStatusPacket(data) ==
  LET op == "parse_status_packet" IN
  IF Len(data) < 6 THEN Parsed(op, "struct.error", <<>>, <<>>, FALSE)
  ELSE
    LET miss_count == data[6]
        offset == 6 + 2 * miss_count
    IN IF offset + 8 + 2 > Len(data)
         THEN Parsed(op, "struct.error", <<>>, <<>>, FALSE)
       ELSE Parsed(op, "",
                   << data[1], ToU16(data[2], data[3]), ToU16(data[4], data[5]),
                      ToI16(data[offset + 1], data[offset + 2]),
                      ToI16(data[offset + 3], data[offset + 4]),
                      ToI16(data[offset + 5], data[offset + 6]),
                      ToI16(data[offset + 7], data[offset + 8]) >>,
                   ReadSeqs(data, 6, miss_count),
                   ToU16(data[offset + 9], data[offset + 10])
                     = Crc16(SubSeq(data, 1, offset + 8)))

\* no packet built yet, nothing parsed yet
NoPacket == [kind |-> "none", args |-> <<>>, missing |-> <<>>, bytes |-> <<>>,
             intact |-> <<>>]
NoParse == Parsed("none", "", <<>>, <<>>, FALSE)

-----------------------------------------------------------------------------
(* UnderwaterCommunicationModel (models/communication_model.py) *)

\* PacketTransmission.arrival_time = None
None == -1

\* ceil(10^(j/10)), j = 1..53: the number of entries <= n is floor(10*log10(n))
Pow10Tenths ==
  << 2, 2, 2, 3, 4, 4, 6, 7, 8, 10, 13, 16, 20, 26, 32, 40, 51, 64, 80, 100,
     126, 159, 200, 252, 317, 399, 502, 631, 795, 1000, 1259, 1585, 1996, 2512,
     3163, 3982, 5012, 6310, 7944, 10000, 12590, 15849, 19953, 25119, 31623,
     39811, 50119, 63096, 79433, 100000, 125893, 158490, 199527 >>

\* math.log10(n) * 10, rounded down (n >= 1)
Log10Tenths(n) == Cardinality({j \in DOMAIN Pow10Tenths : Pow10Tenths[j] <= n})

\* UnderwaterCommunicationModel.__init__: frequency 12000 Hz, transmission
\* power 180 dB, noise level 50 dB, max_reliable_range 1000 m
transmission_power == 1800
noise_level == 500
max_reliable_range == 10000
\* Thorp absorption at 12 kHz as calculate_propagation_loss computes it:
\* 0.002 + 0.11 f^2/(1 + f^2) + 0.011 f^2 = 1.695 dB/km, in thousandths
alpha == 1695
\* CommunicationEnvironment.sound_velocity = 1500.0 m/s, in dm/s
sound_velocity == 15000
\* bottom_depth = 100.0 m in calculate_multipath_effects, in dm
bottom_depth == 1000

\* CommunicationEnvironment.calculate_sound_velocity (Mackenzie, salinity 35),
\* depth in dm, temp in thousandths of a degree; the result in cm/s
CalculateSoundVelocity(depth, temp) ==
  LET T == temp \div 100
      D == depth \div 10
  IN 144896 + (4591 * T) \div 100 - (5304 * T * T) \div 100000
       + (2374 * ((T * T * T) \div 1000)) \div 100000
       + (163 * depth) \div 1000 + (1675 * D * D) \div 100000000

\* calculate_propagation_delay: distance / sound_velocity at the mean depth
CalculatePropagationDelay(cm, distance, ship_depth, sub_depth) ==
  LET avg_depth == (ship_depth + sub_depth) \div 2
      temp_at_depth == cm.water_temperature - 2 * avg_depth
  IN (distance * 100000) \div CalculateSoundVelocity(avg_depth, temp_at_depth)

\* the delay of the surface and of the bottom reflection over the direct path
PathDelay(distance, height) ==
  ((Isqrt(distance * distance + (2 * height) * (2 * height)) - distance) * 10000)
     \div sound_velocity

\* calculate_multipath_effects: <<multipath_delay, interference_factor>>, the
\* factor 0.8 + 0.2 * random.random() in thousandths for the draw k
CalculateMultipathEffects(distance, depth_diff, k) ==
  << Min(PathDelay(distance, depth_diff),
         PathDelay(distance, bottom_depth - depth_diff)),
     800 + (200 * k) \div RngModulus >>

\* calculate_propagation_loss, in tenths of a dB
CalculatePropagationLoss(cm, distance, depth) ==
  IF distance <= 0 THEN 0
  ELSE LET geometric_loss == IF distance > 10
                               THEN 20 * (Log10Tenths(distance) - 10) ELSE 0
           absorption_loss == (alpha * distance) \div 1000000
           depth_factor == 1000 + depth \div 100
           sea_state_factor == 1000 + (200 * cm.sea_state) \div 6
       IN ((((geometric_loss + absorption_loss) * depth_factor) \div 1000)
             * sea_state_factor) \div 1000

\* calculate_packet_loss_probability from the generator state g:
\* <<probability, reason, generator state after>>.  Beyond the reliable
\* range it returns before its own call of calculate_multipath_effects,
\* which takes one draw otherwise
CalculatePacketLossProbability(cm, distance, ship_depth, sub_depth, packet_size, g) ==
  LET snr == transmission_power
               - CalculatePropagationLoss(cm, distance, sub_depth) - noise_level
      snr_loss == IF snr < 100 THEN 80000 ELSE IF snr < 150 THEN 40000
                  ELSE IF snr < 200 THEN 10000 ELSE 2000
      reason == IF snr < 100 THEN "low_snr" ELSE IF snr < 150 THEN "moderate_snr"
                ELSE IF snr < 200 THEN "acceptable_snr" ELSE "good_snr"
      size_factor == Max(1000, 1000 + (packet_size - 50))
      depth_factor == 1000 + Abs(ship_depth - sub_depth) \div 20
      sea_state_factor == 1000 + (300 * cm.sea_state) \div 6
      multipath_factor ==
        2000 - CalculateMultipathEffects(distance, Abs(ship_depth - sub_depth),
                                         RngNext(g))[2]
  IN IF distance > max_reliable_range THEN <<95000, "out_of_range", g>>
     ELSE << Min(98000,
                 (((((((snr_loss * size_factor) \div 1000) * depth_factor) \div 1000)
                     * sea_state_factor) \div 1000) * multipath_factor) \div 1000),
             reason, RngNext(g) >>

\* a transmission that is given an arrival time although it was lost
Deliver_AlwaysArrives(t, lost, loss_reason) ==
  IF lost THEN [t EXCEPT !.is_lost = TRUE, !.loss_reason = loss_reason,
                         !.arrival_time = t.transmission_time
                             + t.propagation_delay + t.multipath_delay]
  ELSE [t EXCEPT !.arrival_time = t.transmission_time
                                    + t.propagation_delay + t.multipath_delay]

\* the two outcomes simulate_transmission ends with: lost (flag and reason
\* set), or arrival_time = transmission_time + total_delay
Deliver(t, lost, loss_reason) ==
  IF lost THEN [t EXCEPT !.is_lost = TRUE, !.loss_reason = loss_reason]
  ELSE [t EXCEPT !.arrival_time = t.transmission_time
                                    + t.propagation_delay + t.multipath_delay]

\* PacketTransmission(packet_id, sender, receiver, packet_type, data_size,
\* transmission_time) with the dataclass defaults
NewTransmission(counter, sender, receiver, packet_type, data_size, now) ==
  [ packet_id |-> <<sender, packet_type, counter>>, sender |-> sender,
    receiver |-> receiver, packet_type |-> packet_type, data_size |-> data_size,
    transmission_time |-> now, arrival_time |-> None, propagation_delay |-> 0,
    is_lost |-> FALSE, loss_reason |-> "", signal_strength |-> 1000,
    multipath_delay |-> 0 ]

\* simulate_transmission of models/communication_model.py, the ship at the
\* origin: the model, the generator state and the transmission it returns.
\* Its draws: the interference factor, the one inside the loss probability
\* (none beyond the reliable range), the loss decision.
SimulateTransmission(cm, sender, receiver, packet_type, data_size, sub_pos, g, now) ==
  LET distance == Isqrt(Dist3Sq(0, 0, 0, sub_pos[1], sub_pos[2], sub_pos[3]))
      sub_depth == sub_pos[3]
      k1 == RngNext(g)
      mp == CalculateMultipathEffects(distance, Abs(0 - sub_depth), k1)
      loss == CalculatePacketLossProbability(cm, distance, 0, sub_depth,
                                             data_size, k1)
      k3 == RngNext(loss[3])
      t == [NewTransmission(cm.packet_counter + 1, sender, receiver,
                            packet_type, data_size, now)
              EXCEPT !.propagation_delay =
                        CalculatePropagationDelay(cm, distance, 0, sub_depth),
                     !.multipath_delay = mp[1],
                     !.signal_strength = mp[2]]
  IN [ comm |-> [cm EXCEPT !.packet_counter = @ + 1],
       rng |-> k3,
       transmission |-> Deliver(t, k3 * 100000 < loss[1] * RngModulus, loss[2]),
       decision |-> [loss_prob |-> loss[1], loss_reason |-> loss[2], r |-> k3] ]

\* update_environment(sea_state, temperature)
UpdateEnvironment(cm, sea_state, temperature) ==
  [cm EXCEPT !.sea_state = Max(0, Min(6, sea_state)),
             !.water_temperature = temperature]

-----------------------------------------------------------------------------
(* The physics-based model of the packaged application                      *)
(* (dist/.../models/communication_model.py, acoustic_physics.py,            *)
(* acoustic_config.py), with DEFAULT_CONFIG                                 *)

\* AcousticPhysicsConfig(): the dataclass defaults (dB in tenths, the
\* spreading exponent in tenths, the size penalty in thousandths)
DEFAULT_CONFIG ==
  [ transmission_power_db |-> 1700, frequency_hz |-> 12000,
    noise_level_db |-> 500, required_snr_db |-> 100,
    spreading_exponent |-> 15, site_anomaly_db |-> 0,
    baseline_packet_size |-> 50, size_adjustment_factor |-> 500,
    max_size_penalty |-> 2000 ]

\* the preset for meaningful packet loss at moderate ranges
REALISTIC_TESTING_CONFIG ==
  [ DEFAULT_CONFIG EXCEPT !.transmission_power_db = 1550,
                           !.noise_level_db = 650, !.required_snr_db = 150,
                           !.frequency_hz = 15000, !.spreading_exponent = 20,
                           !.site_anomaly_db = 100 ]

\* acoustic_physics.alpha_thorp, in thousandths of a dB per km, at the
\* frequencies of the presets: 1.645 at 12 kHz, 2.463 at 15 kHz
AlphaThorp(frequency_hz) == IF frequency_hz = 15000 THEN 2463 ELSE 1645

\* the values __init__ and update_physics_config derive from a configuration
\* and store on the model (the linear powers and the linear anomaly factor
\* held as their dB values, _f_khz in Hz)
WithPhysicsConfig(cm, config) ==
  [ cm EXCEPT !.physics_config = config,
              !.P0 = config.transmission_power_db,
              !.noise_psd = config.noise_level_db,
              !.gamma_req = config.required_snr_db,
              !.spreading_exp = config.spreading_exponent,
              !.anomaly_db = config.site_anomaly_db,
              !.f_khz = config.frequency_hz,
              !.alpha_cached = AlphaThorp(config.frequency_hz),
              !.anomaly_linear_cached = config.site_anomaly_db ]

\* 1 - exp(-10^(e/10)) for e = -50 .. 10 dB, in 1e-5
PLossTable ==
  << 1, 1, 2, 2, 3, 3, 4, 5, 6, 8, 10, 13, 16, 20, 25, 32, 40, 50, 63, 79, 100,
     126, 158, 199, 251, 316, 397, 500, 629, 791, 995, 1251, 1572, 1975, 2481,
     3113, 3903, 4888, 6115, 7636, 9516, 11829, 14657, 18088, 22212, 27111,
     32841, 39419, 46792, 54812, 63212, 71604, 79503, 86402, 91888, 95767,
     98133, 99334, 99818, 99964, 99995 >>

\* acoustic_physics.transmission_loss, in tenths of a dB, called with the
\* model's _f_khz, spreading_exp and anomaly_db
TransmissionLoss(cm, distance) ==
  (cm.spreading_exp * (Log10Tenths(distance) - 10))
    + (AlphaThorp(cm.f_khz) * distance) \div 1000000 + cm.anomaly_db

\* acoustic_physics.compute_gamma_mean, as tenths of a dB: P0 / N less the loss
GammaMeanDb(cm, distance) ==
  (cm.P0 - cm.noise_psd) - TransmissionLoss(cm, distance)

\* acoustic_physics.packet_loss_probability: 1 - exp(-gamma_req / gamma_mean)
PhysicsPacketLossProbability(cm, distance) ==
  LET e == (cm.gamma_req - GammaMeanDb(cm, distance)) \div 10
  IN IF e < -50 THEN 0 ELSE IF e > 10 THEN 100000 ELSE PLossTable[e + 51]

\* a calculate_packet_loss_probability that leaves the adjusted probability
\* uncapped
CalculatePacketLossProbabilityPhysics_Uncapped(cm, distance, packet_size) ==
  LET config == cm.physics_config
      size_factor ==
        Max(1000, Min(config.max_size_penalty,
                      1000 + ((packet_size - config.baseline_packet_size) * 1000)
                               \div config.size_adjustment_factor))
  IN IF distance <= 0 THEN <<0, "zero_distance">>
     ELSE IF distance < 10 THEN <<1000, "close_range">>
     ELSE IF config.size_adjustment_factor = 0
       THEN <<95000, "calculation_error_ZeroDivisionError">>
     ELSE << (PhysicsPacketLossProbability(cm, distance) * size_factor) \div 1000,
             "good_snr" >>

\* calculate_packet_loss_probability of the packaged model; the division by
\* a size_adjustment_factor of zero raises inside the try and gives the
\* fallback 0.95
CalculatePacketLossProbabilityPhysics(cm, distance, packet_size) ==
  LET gamma == GammaMeanDb(cm, distance)
      config == cm.physics_config
      reason == IF gamma < 0 THEN "very_low_snr" ELSE IF gamma < 50 THEN "low_snr"
                ELSE IF gamma < 100 THEN "moderate_snr"
                ELSE IF gamma < 150 THEN "acceptable_snr" ELSE "good_snr"
      size_factor ==
        Max(1000, Min(config.max_size_penalty,
                      1000 + ((packet_size - config.baseline_packet_size) * 1000)
                               \div config.size_adjustment_factor))
  IN IF distance <= 0 THEN <<0, "zero_distance">>
     ELSE IF distance < 10 THEN <<1000, "close_range">>
     ELSE IF config.size_adjustment_factor = 0
       THEN <<95000, "calculation_error_ZeroDivisionError">>
     ELSE << Min(99000, (PhysicsPacketLossProbability(cm, distance) * size_factor)
                           \div 1000), reason >>

\* simulate_transmission of the packaged model: two draws, the interference
\* factor and the delivery decision random.random() < 1 - loss_prob
SimulateTransmissionPhysics(cm, sender, receiver, packet_type, data_size, sub_pos, g, now) ==
  LET distance == Isqrt(Dist3Sq(0, 0, 0, sub_pos[1], sub_pos[2], sub_pos[3]))
      sub_depth == sub_pos[3]
      k1 == RngNext(g)
      k2 == RngNext(k1)
      mp == CalculateMultipathEffects(distance, Abs(0 - sub_depth), k1)
      loss == CalculatePacketLossProbabilityPhysics(cm, distance, data_size)
      t == [NewTransmission(cm.packet_counter + 1, sender, receiver,
                            packet_type, data_size, now)
              EXCEPT !.propagation_delay =
                        CalculatePropagationDelay(cm, distance, 0, sub_depth),
                     !.multipath_delay = mp[1],
                     !.signal_strength = mp[2]]
  IN [ comm |-> [cm EXCEPT !.packet_counter = @ + 1],
       rng |-> k2,
       transmission |->
         Deliver(t, ~(k2 * 100000 < (100000 - loss[1]) * RngModulus), loss[2]),
       decision |-> [loss_prob |-> loss[1], loss_reason |-> loss[2], r |-> k2] ]

\* an update_physics_config that installs the configuration and leaves the
\* cached frequency of the one before
UpdatePhysicsConfig_KeepsFrequency(cm, new_config) ==
  [WithPhysicsConfig(cm, new_config) EXCEPT !.f_khz = cm.f_khz]

\* update_physics_config(new_config)
UpdatePhysicsConfig(cm, new_config) == WithPhysicsConfig(cm, new_config)

\* UnderwaterCommunicationModel(): packet_counter, the environment fields
\* update_environment sets, the configuration and what is derived from it
NewComm ==
  WithPhysicsConfig(
    [ packet_counter |-> 0, sea_state |-> 2, water_temperature |-> 15000,
      physics_config |-> DEFAULT_CONFIG, P0 |-> 0, noise_psd |-> 0,
      gamma_req |-> 0, spreading_exp |-> 0, anomaly_db |-> 0, f_khz |-> 0,
      alpha_cached |-> 0, anomaly_linear_cached |-> 0 ], DEFAULT_CONFIG)

\* no transmission simulated yet
NoTransmission == NewTransmission(0, "", "", "", 0, 0)

\* the locals loss_prob and loss_reason of simulate_transmission and the
\* value of the random.random() of its if, as the generator state k (the
\* draw is k / RngModulus); before any call
NoDecision == [loss_prob |-> 0, loss_reason |-> "", r |-> 0]

-----------------------------------------------------------------------------
(* MissionPlanner (models/simulation_controller.py) *)

\* submarine.movement_aggressiveness, in tenths: the application sets 0.7
movement_aggressiveness == 7

\* CommandCode.name
CommandName(cmd) ==
  <<"MOVE", "TURN", "STOP", "ASCEND", "DESCEND", "REPORT_STATUS">>[cmd]

\* int() of a length held in dm: whole metres, truncated toward zero
IntM(dm) == IF dm >= 0 THEN dm \div 10 ELSE -((-dm) \div 10)

\* MissionPlanner.__init__
NewPlanner ==
  [ search_pattern |-> "spiral", search_radius |-> 0, search_angle |-> 0,
    commands_in_sequence |-> <<>>, sequence_index |-> 0,
    last_ship_distance |-> 0, depth_pattern_cycle |-> 0,
    target_depth_layer |-> 30, depth_sweep_direction |-> 1,
    depth_layer_timer |-> 0 ]

\* (math.degrees(math.atan2(dy, dx)) + 360) % 360, to a whole degree: the
\* acute angle is the number of whole degrees whose tangent is <= |dy| / |dx|
Atan2Deg(dy, dx) ==
  LET a == Cardinality({d \in 1..90 :
                          Sin1000(d) * Abs(dx) <= Cos1000(d) * Abs(dy)})
  IN IF dx = 0 /\ dy = 0 THEN 0
     ELSE IF dx > 0 /\ dy >= 0 THEN a
     ELSE IF dx <= 0 /\ dy > 0 THEN 180 - a
     ELSE IF dx < 0 /\ dy <= 0 THEN 180 + a
     ELSE (360 - a) % 360

\* Submarine._calculate_bearing(target_pos)
CalculateBearing(sub, tx, ty) == Atan2Deg(ty - sub.y, tx - sub.x)

\* heading_diff = (ship_bearing - heading + 360) % 360, less 360 above 180
HeadingDiff(ship_bearing, heading) ==
  LET d == (ship_bearing - heading + 360) % 360
  IN IF d > 180 THEN d - 360 ELSE d

\* what a planning step hands back: the command, the planner and the
\* generator state after it
Plan(cmd, param, pl, g) == [cmd |-> cmd, param |-> param, planner |-> pl, rng |-> g]

\* _plan_return_to_ship
PlanReturnToShip(pl, sub, g) ==
  LET heading_diff == HeadingDiff(CalculateBearing(sub, 0, 0), sub.heading)
  IN IF Abs(heading_diff) > 10
       THEN Plan(TURN, Max(-turn_rate, Min(turn_rate, heading_diff)), pl, g)
       ELSE Plan(MOVE, Min(30, speed), pl, g)

\* an emergency return that keeps turning and never moves
PlanEmergencyReturn_TurnsOnly(pl, sub, g) ==
  LET heading_diff == HeadingDiff(Atan2Deg(0 - sub.y, 0 - sub.x), sub.heading)
  IN IF Abs(heading_diff) > 5
       THEN Plan(TURN, Max(-turn_rate, Min(turn_rate, heading_diff)), pl, g)
       ELSE Plan(TURN, turn_rate, pl, g)

\* _plan_emergency_return
PlanEmergencyReturn(pl, sub, g) ==
  LET heading_diff == HeadingDiff(Atan2Deg(0 - sub.y, 0 - sub.x), sub.heading)
  IN IF Abs(heading_diff) > 5
       THEN Plan(TURN, Max(-turn_rate, Min(turn_rate, heading_diff)), pl, g)
       ELSE Plan(MOVE, Min(speed, 10), pl, g)

\* _should_change_depth: <<the answer, the planner after the call>>
ShouldChangeDepth(pl, sub) ==
  IF sub.depth < 5 \/ sub.depth > 90 THEN <<TRUE, pl>>
  ELSE
    LET cycle == pl.depth_pattern_cycle + 1
    IN << \/ cycle % 3 = 0
          \/ pl.search_pattern \in {"3d_sweep", "depth_layers"}
          \/ /\ pl.last_ship_distance * 5 > sub.max_safe_distance_from_ship * 10
             /\ cycle % 2 = 0
          \/ cycle % 5 = 0,
          [pl EXCEPT !.depth_pattern_cycle = cycle] >>

\* random.random() < 0.5 for the draw k
CoinFlip(k) == 2 * k < RngModulus

\* _plan_layer_depth_change
PlanLayerDepthChange(pl, sub, g) ==
  LET target_layer == <<15, 30, 45, 60, 75>>[(pl.depth_pattern_cycle % 5) + 1]
      pl2 == [pl EXCEPT !.target_depth_layer = target_layer]
      depth_diff == target_layer - sub.depth
      k1 == RngNext(g)
      k2 == RngNext(k1)
  IN IF Abs(depth_diff) > 3
       THEN IF depth_diff > 0
              THEN Plan(DESCEND, Min(Abs(depth_diff), 20), pl2, g)
              ELSE Plan(ASCEND, Min(Abs(depth_diff), 20), pl2, g)
     ELSE IF CoinFlip(k1) THEN Plan(ASCEND, RandInt(3, 8, k2), pl2, k2)
     ELSE Plan(DESCEND, RandInt(3, 8, k2), pl2, k2)

\* _plan_sweep_depth_change
PlanSweepDepthChange(pl, sub, g) ==
  LET k1 == RngNext(g)
  IN IF pl.depth_sweep_direction = 1
       THEN IF sub.depth > 80
              THEN Plan(ASCEND, RandInt(10, 20, k1),
                        [pl EXCEPT !.depth_sweep_direction = -1], k1)
              ELSE Plan(DESCEND, RandInt(8, 15, k1), pl, k1)
       ELSE IF sub.depth < 15
              THEN Plan(DESCEND, RandInt(10, 20, k1),
                        [pl EXCEPT !.depth_sweep_direction = 1], k1)
              ELSE Plan(ASCEND, RandInt(8, 15, k1), pl, k1)

\* _plan_general_depth_change
PlanGeneralDepthChange(pl, sub, g) ==
  LET optimal_zones == << <<20, 35>>, <<40, 55>>, <<60, 75>> >>
      inside == {i \in 1..3 : optimal_zones[i][1] <= sub.depth
                                /\ sub.depth <= optimal_zones[i][2]}
      g1 == IF inside = {} THEN RngNext(g) ELSE g
      target_zone == IF inside = {} THEN RandInt(0, 2, g1) + 1
                     ELSE ((CHOOSE i \in inside : TRUE) % 3) + 1
      k2 == RngNext(g1)
      target_depth == RandInt(optimal_zones[target_zone][1],
                              optimal_zones[target_zone][2], k2)
      depth_diff == target_depth - sub.depth
      k3 == RngNext(k2)
      k4 == RngNext(k3)
  IN IF Abs(depth_diff) > 5
       THEN IF depth_diff > 0
              THEN Plan(DESCEND, Min(Abs(depth_diff), 25), pl, k2)
              ELSE Plan(ASCEND, Min(Abs(depth_diff), 25), pl, k2)
     ELSE IF CoinFlip(k3) THEN Plan(ASCEND, RandInt(5, 12, k4), pl, k4)
     ELSE Plan(DESCEND, RandInt(5, 12, k4), pl, k4)

\* _plan_depth_change
PlanDepthChange(pl, sub, g) ==
  IF sub.depth < 5 THEN Plan(DESCEND, RandInt(15, 25, RngNext(g)), pl, RngNext(g))
  ELSE IF sub.depth > 90
    THEN Plan(ASCEND, RandInt(15, 25, RngNext(g)), pl, RngNext(g))
  ELSE IF pl.search_pattern = "depth_layers" THEN PlanLayerDepthChange(pl, sub, g)
  ELSE IF pl.search_pattern = "3d_sweep" THEN PlanSweepDepthChange(pl, sub, g)
  ELSE PlanGeneralDepthChange(pl, sub, g)

\* distance_factor = max(0.2, 1.0 - last_ship_distance / effective_max_distance)
\* in thousandths, effective_max_distance = max safe distance * aggressiveness
DistanceFactor(pl, sub) ==
  Max(200, 1000 - (pl.last_ship_distance * 1000)
                     \div (sub.max_safe_distance_from_ship * movement_aggressiveness))

\* the commands appended to commands_in_sequence
Append2(pl, cmds) == [pl EXCEPT !.commands_in_sequence = @ \o cmds]

\* _plan_spiral_search
PlanSpiralSearch(pl, sub, g) ==
  LET move_distance ==
        Min((speed * movement_aggressiveness * 2) \div 10,
            ((10 + pl.search_radius * 3) * DistanceFactor(pl, sub)) \div 1000)
      turn_angle == 30 + (pl.search_radius * 3 * movement_aggressiveness) \div 10
      max_search_radius == 15 + (movement_aggressiveness * 20) \div 10
  IN [ planner |->
         [ Append2(pl, << <<MOVE, move_distance>>, <<TURN, turn_angle>> >>)
             EXCEPT !.search_radius =
                      IF @ + 1 > max_search_radius THEN 0 ELSE @ + 1 ],
       rng |-> g ]

\* _plan_grid_search
PlanGridSearch(pl, sub, g) ==
  LET move_distance == Min((speed * movement_aggressiveness * 3 * 2) \div 10,
                           (80 * DistanceFactor(pl, sub)) \div 1000)
      turn == IF pl.search_angle % 180 = 0 THEN 90 ELSE -90
  IN [ planner |->
         [ Append2(pl, << <<MOVE, move_distance>>, <<TURN, turn>>,
                          <<MOVE, speed * 2>>, <<TURN, turn>> >>)
             EXCEPT !.search_angle = @ + 180 ],
       rng |-> g ]

\* _plan_3d_sweep_search
Plan3dSweepSearch(pl, sub, g) ==
  LET move_distance == Min((speed * movement_aggressiveness * 2) \div 10,
                           (50 * DistanceFactor(pl, sub)) \div 1000)
      turn_angle == IF pl.search_radius % 2 = 0 THEN 45 ELSE -45
  IN [ planner |->
         [ Append2(pl, << <<MOVE, move_distance>>, <<TURN, turn_angle>> >>)
             EXCEPT !.search_radius = IF @ + 1 > 20 THEN 0 ELSE @ + 1 ],
       rng |-> g ]

\* _plan_depth_layer_search
PlanDepthLayerSearch(pl, sub, g) ==
  LET timer == pl.depth_layer_timer + 1
      move_distance == Min((speed * movement_aggressiveness * 2) \div 10,
                           (40 * DistanceFactor(pl, sub)) \div 1000)
      k1 == RngNext(g)
      turns == IF timer % 6 = 0 THEN << <<TURN, 90>> >>
               ELSE IF timer % 3 = 0 THEN << <<TURN, RandInt(-30, 30, k1)>> >>
               ELSE << >>
  IN [ planner |->
         [ Append2(pl, << <<MOVE, move_distance>> >> \o turns)
             EXCEPT !.depth_layer_timer = IF timer > 15 THEN 0 ELSE timer ],
       rng |-> IF timer % 6 # 0 /\ timer % 3 = 0 THEN k1 ELSE g ]

\* _plan_random_search: the move is drawn before the turn; int(90 * 0.7) is
\* 62, the product being 62.99999999999999
PlanRandomSearch(pl, sub, g) ==
  LET k1 == RngNext(g)
      k2 == RngNext(k1)
      move_distance == Min((speed * movement_aggressiveness * 4 * 3) \div 10,
                           (RandInt(30, 100, k1) * DistanceFactor(pl, sub)) \div 1000)
      turn_range == (90 * movement_aggressiveness - 1) \div 10
  IN [ planner |-> Append2(pl, << <<TURN, RandInt(-turn_range, turn_range, k2)>>,
                                  <<MOVE, move_distance>> >>),
       rng |-> k2 ]

\* _plan_next_sequence
PlanNextSequence(pl, sub, g) ==
  Bind(ShouldChangeDepth([pl EXCEPT !.commands_in_sequence = <<>>,
                                    !.sequence_index = 0], sub),
       LAMBDA should :
         Bind(IF should[1]
                THEN Bind(PlanDepthChange(should[2], sub, g),
                          LAMBDA depth :
                            [ planner |-> Append2(depth.planner,
                                            << <<depth.cmd, depth.param>> >>),
                              rng |-> depth.rng ])
                ELSE [planner |-> should[2], rng |-> g],
              LAMBDA d :
                IF d.planner.search_pattern = "spiral"
                  THEN PlanSpiralSearch(d.planner, sub, d.rng)
                ELSE IF d.planner.search_pattern = "grid"
                  THEN PlanGridSearch(d.planner, sub, d.rng)
                ELSE IF d.planner.search_pattern = "3d_sweep"
                  THEN Plan3dSweepSearch(d.planner, sub, d.rng)
                ELSE IF d.planner.search_pattern = "depth_layers"
                  THEN PlanDepthLayerSearch(d.planner, sub, d.rng)
                ELSE PlanRandomSearch(d.planner, sub, d.rng)))

\* the tail of get_next_command: a new sequence and its first command
FirstOfNewSequence(pl, sub, g) ==
  Bind(PlanNextSequence(pl, sub, g),
       LAMBDA p :
         IF p.planner.commands_in_sequence # <<>>
           THEN Plan(p.planner.commands_in_sequence[1][1],
                     p.planner.commands_in_sequence[1][2],
                     [p.planner EXCEPT !.sequence_index = 1], p.rng)
           ELSE Plan(MOVE, 5, p.planner, p.rng))

\* a get_next_command that continues the queued sequence before it looks at
\* the bounds and the distance
GetNextCommand_QueueFirst(pl, sub, gm, g) ==
  Bind([pl EXCEPT !.last_ship_distance = CommunicationDistance(sub)],
       LAMBDA pl1 :
         IF pl1.commands_in_sequence # <<>>
              /\ pl1.sequence_index < Len(pl1.commands_in_sequence)
           THEN LET c == pl1.commands_in_sequence[pl1.sequence_index + 1]
                IN Plan(c[1], c[2], [pl1 EXCEPT !.sequence_index = @ + 1], g)
         ELSE IF ~IsSubmarineInBounds(sub, gm) THEN PlanEmergencyReturn(pl1, sub, g)
         ELSE IF pl1.last_ship_distance * 10
                   > sub.max_safe_distance_from_ship * movement_aggressiveness * 8
           THEN PlanReturnToShip(pl1, sub, g)
         ELSE FirstOfNewSequence(pl1, sub, g))

\* MissionPlanner.get_next_command
GetNextCommand(pl, sub, gm, g) ==
  Bind([pl EXCEPT !.last_ship_distance = CommunicationDistance(sub)],
       LAMBDA pl1 :
         IF ~IsSubmarineInBounds(sub, gm) THEN PlanEmergencyReturn(pl1, sub, g)
         ELSE IF pl1.last_ship_distance * 10
                   > sub.max_safe_distance_from_ship * movement_aggressiveness * 8
           THEN PlanReturnToShip(pl1, sub, g)
         ELSE IF pl1.commands_in_sequence # <<>>
                 /\ pl1.sequence_index < Len(pl1.commands_in_sequence)
           THEN LET c == pl1.commands_in_sequence[pl1.sequence_index + 1]
                IN IF IsSafeToExecuteCommand(sub, c[1], c[2])[1]
                     THEN Plan(c[1], c[2],
                               [pl1 EXCEPT !.sequence_index = @ + 1], g)
                     ELSE FirstOfNewSequence(
                            [pl1 EXCEPT !.sequence_index = @ + 1], sub, g)
         ELSE FirstOfNewSequence(pl1, sub, g))

-----------------------------------------------------------------------------
(* SimulationController (models/simulation_controller.py) *)

available_patterns == <<"spiral", "grid", "random", "3d_sweep", "depth_layers">>
pattern_rotation_interval == 500

\* one tick is 1.0 s of simulation time, in units of 1e-4 s
TickSeconds == 10000

\* SimulationController.__init__: the statistics and the timing fields; now
\* is what time.time() returns.  detection_events and communication_events
\* are held by their lengths.
NewController(now) ==
  [ total_commands_sent |-> 0, total_commands_received |-> 0,
    total_status_sent |-> 0, total_status_received |-> 0,
    detection_events |-> 0, communication_events |-> 0,
    command_type_counts |->
      [n \in {"MOVE", "TURN", "ASCEND", "DESCEND"} |-> 0],
    last_pattern_change_tick |-> 0,
    simulation_start_time |-> now, current_simulation_time |-> 0 ]

\* get_simulation_timestamp
GetSimulationTimestamp(ctl) ==
  ctl.simulation_start_time + ctl.current_simulation_time

\* SimulationEvent(tick, event_type, data, success, timestamp)
SimulationEvent(tick, event_type, data, success, timestamp) ==
  [ tick |-> tick, event_type |-> event_type, data |-> data,
    success |-> success, timestamp |-> timestamp ]

\* a rotation that switches the pattern and leaves the planner's counters
RotateSearchPattern_KeepsCounters(ctl, pl, current_tick) ==
  IF current_tick - ctl.last_pattern_change_tick >= pattern_rotation_interval
    THEN LET current_pattern_index ==
               CHOOSE i \in DOMAIN available_patterns :
                 available_patterns[i] = pl.search_pattern
         IN << [ctl EXCEPT !.last_pattern_change_tick = current_tick],
               [pl EXCEPT !.search_pattern =
                            available_patterns[(current_pattern_index % 5) + 1]] >>
    ELSE <<ctl, pl>>

\* _rotate_search_pattern: <<the controller, the planner>> after the call
RotateSearchPattern(ctl, pl, current_tick) ==
  IF current_tick - ctl.last_pattern_change_tick >= pattern_rotation_interval
    THEN LET current_pattern_index ==
               CHOOSE i \in DOMAIN available_patterns :
                 available_patterns[i] = pl.search_pattern
         IN << [ctl EXCEPT !.last_pattern_change_tick = current_tick],
               [pl EXCEPT !.search_pattern =
                            available_patterns[(current_pattern_index % 5) + 1],
                          !.search_radius = 0, !.search_angle = 0,
                          !.depth_pattern_cycle = 0, !.depth_layer_timer = 0] >>
    ELSE <<ctl, pl>>

\* the start of simulate_tick: the simulation time, the pattern rotation, the
\* environment handed to the link, the next command
BeginTick(ctl, pl, cm, sub, gm, g) ==
  Bind(RotateSearchPattern(
         [ctl EXCEPT !.current_simulation_time = gm.tick * TickSeconds],
         pl, gm.tick),
       LAMBDA rotated :
         Bind(GetNextCommand(rotated[2], sub, gm, g),
              LAMBDA next :
                [ controller |-> rotated[1], planner |-> next.planner,
                  rng |-> next.rng,
                  comm |-> UpdateEnvironment(cm, gm.sea_state,
                                             gm.water_temperature),
                  cmd |-> next.cmd, param |-> next.param ]))

\* communication_model.simulate_transmission of the model the run is built with
Transmission(link, cm, sender, receiver, packet_type, data_size, sub_pos, g, now) ==
  IF link = "physics"
    THEN SimulateTransmissionPhysics(cm, sender, receiver, packet_type,
                                     data_size, sub_pos, g, now)
    ELSE SimulateTransmission(cm, sender, receiver, packet_type, data_size,
                              sub_pos, g, now)

\* the payload both the command and the status event take from a transmission
TransmissionData(t, distance, raw_packet_size) ==
  [ packet_id |-> t.packet_id, distance |-> distance, lost |-> t.is_lost,
    loss_reason |-> t.loss_reason, raw_packet_size |-> raw_packet_size,
    transmission_time |-> t.transmission_time, arrival_time |-> t.arrival_time,
    propagation_delay |-> t.propagation_delay,
    multipath_delay |-> t.multipath_delay,
    total_delay |-> t.propagation_delay + t.multipath_delay,
    signal_strength |-> t.signal_strength ]

\* raw_cmd = PacketFormatter.build_cmd_packet(cmd, int(param))
RawCmd(cmd, param) == BuildCmdPacket(cmd, param, <<>>).bytes

\* raw_status = PacketFormatter.build_status_packet(...) of the whole-number
\* parts of depth, pressure (bar), position (m) and heading
RawStatus(command_executed, sub) ==
  BuildStatusPacket(IF command_executed THEN 1 ELSE 0, sub.depth,
                    sub.pressure \div 40000, <<>>, IntM(sub.x), IntM(sub.y),
                    IntM(sub.z), sub.heading).bytes

\* a count that skips the commands lost on the link
CommandsSent_DeliveredOnly(n, is_lost) == IF is_lost THEN n ELSE n + 1

\* self.total_commands_sent += 1, whatever became of the transmission
CommandsSent(n, is_lost) == n + 1

\* the command is sent: the controller and the command event
SendCommand(ctl, t, cmd, param, sub, gm) ==
  LET raw_cmd == RawCmd(cmd, param)
  IN [ controller |->
         [ctl EXCEPT !.total_commands_sent = CommandsSent(@, t.is_lost),
                     !.communication_events = @ + 1],
       event |->
         SimulationEvent(gm.tick, "command",
           [ link |-> TransmissionData(t, CommunicationDistance(sub), Len(raw_cmd)),
             command |-> CommandName(cmd), param |-> param ],
           ~t.is_lost, GetSimulationTimestamp(ctl)) ]

\* a tick that hands a lost command to execute_command all the same and
\* reports it as lost
Execute_EvenIfLost(ctl, t, cmd, param, sub, g) ==
  LET o == ExecuteCommand(sub, g, cmd, param)
  IN IF t.is_lost
       THEN [ controller |-> ctl, submarine |-> o.sub, rng |-> o.rng,
              command_executed |-> FALSE, execution_reason |-> "packet_lost" ]
       ELSE [ controller |->
                [ctl EXCEPT !.total_commands_received = @ + 1,
                            !.command_type_counts =
                               IF CommandName(cmd) \in DOMAIN @
                                 THEN [@ EXCEPT ![CommandName(cmd)] = @ + 1]
                                 ELSE @],
              submarine |-> o.sub, rng |-> o.rng,
              command_executed |-> o.accepted, execution_reason |-> o.reason ]

\* the command is executed if it was not lost
Execute(ctl, t, cmd, param, sub, g) ==
  IF t.is_lost
    THEN [ controller |-> ctl, submarine |-> sub, rng |-> g,
           command_executed |-> FALSE, execution_reason |-> "packet_lost" ]
    ELSE LET o == ExecuteCommand(sub, g, cmd, param)
         IN [ controller |->
                [ctl EXCEPT !.total_commands_received = @ + 1,
                            !.command_type_counts =
                               IF CommandName(cmd) \in DOMAIN @
                                 THEN [@ EXCEPT ![CommandName(cmd)] = @ + 1]
                                 ELSE @],
              submarine |-> o.sub, rng |-> o.rng,
              command_executed |-> o.accepted, execution_reason |-> o.reason ]

\* the detection events of a tick, one per object detect_objects returned, in
\* the order of the object list
DetectionEvents(ctl, sub, objs, tick) ==
  LET From[i \in 1..(Len(objs) + 1)] ==
        IF i > Len(objs) THEN << >>
        ELSE IF i \in InRange(sub, objs)
          THEN << SimulationEvent(tick, "detection",
                    [ object_id |-> objs[i].id,
                      object_type |-> objs[i].object_type,
                      position |-> <<objs[i].x, objs[i].y, objs[i].z>>,
                      size |-> objs[i].size,
                      distance |-> Isqrt(Dist3Sq(sub.x, sub.y, sub.z, objs[i].x,
                                                 objs[i].y, objs[i].z)),
                      bearing |-> CalculateBearing(sub, objs[i].x, objs[i].y) ],
                    TRUE, GetSimulationTimestamp(ctl)) >> \o From[i + 1]
        ELSE From[i + 1]
  IN From[1]

\* a status that reports success whatever became of the command
SendStatus_AlwaysOk(ctl, t, executed, sub, objs, tick) ==
  LET raw_status == RawStatus(TRUE, sub)
  IN [ controller |->
         [ctl EXCEPT !.total_status_sent = @ + 1,
                     !.total_status_received = IF t.is_lost THEN @ ELSE @ + 1,
                     !.communication_events = @ + 1],
       event |->
         SimulationEvent(tick, "status",
           [ link |-> TransmissionData(t, CommunicationDistance(sub),
                                       Len(raw_status)),
             status_code |-> 1,
             execution_reason |-> executed.execution_reason,
             position |-> <<sub.x, sub.y, sub.z>>, heading |-> sub.heading,
             depth |-> sub.depth, pressure |-> sub.pressure,
             state |-> sub.state, environmental_sensors |-> sub.sensors,
             total_nearby |-> Cardinality(InRange(sub, objs)) ],
           ~t.is_lost, GetSimulationTimestamp(ctl)) ]

\* the status is sent: the controller and the status event
SendStatus(ctl, t, executed, sub, objs, tick) ==
  LET raw_status == RawStatus(executed.command_executed, sub)
  IN [ controller |->
         [ctl EXCEPT !.total_status_sent = @ + 1,
                     !.total_status_received = IF t.is_lost THEN @ ELSE @ + 1,
                     !.communication_events = @ + 1],
       event |->
         SimulationEvent(tick, "status",
           [ link |-> TransmissionData(t, CommunicationDistance(sub),
                                       Len(raw_status)),
             status_code |-> IF executed.command_executed THEN 1 ELSE 0,
             execution_reason |-> executed.execution_reason,
             position |-> <<sub.x, sub.y, sub.z>>, heading |-> sub.heading,
             depth |-> sub.depth, pressure |-> sub.pressure,
             state |-> sub.state, environmental_sensors |-> sub.sensors,
             total_nearby |-> Cardinality(InRange(sub, objs)) ],
           ~t.is_lost, GetSimulationTimestamp(ctl)) ]

\* GameState.get_status_summary
GetStatusSummary(sub, objs, gm) ==
  [ tick |-> gm.tick, submarine_position |-> <<sub.x, sub.y, sub.z>>,
    submarine_heading |-> sub.heading, submarine_depth |-> sub.depth,
    submarine_state |-> sub.state,
    communication_distance |-> CommunicationDistance(sub),
    objects_detected |-> gm.objects_detected, total_objects |-> Len(objs),
    distance_traveled |-> gm.total_distance_traveled,
    in_bounds |-> IsSubmarineInBounds(sub, gm) ]

\* get_communication_quality(distance, ship_depth, sub_depth): the report and
\* the generator state; the heuristic model's loss probability takes a draw
GetCommunicationQuality(link, cm, distance, sub_depth, g) ==
  IF link = "physics"
    THEN LET loss == CalculatePacketLossProbabilityPhysics(cm, distance, 50)
         IN [ data |-> [distance |-> distance,
                        packet_loss_probability |-> loss[1],
                        quality_reason |-> loss[2]],
              rng |-> g ]
    ELSE LET loss == CalculatePacketLossProbability(cm, distance, 0, sub_depth,
                                                    50, g)
         IN [ data |-> [distance |-> distance,
                        packet_loss_probability |-> loss[1],
                        quality_reason |-> loss[2]],
              rng |-> loss[3] ]

\* a tick that reports the link quality before the mission summary
PeriodicEvents_QualityFirst(ctl, link, cm, sub, objs, gm, sub_pos, current_tick, g) ==
  LET quality == GetCommunicationQuality(link, cm, CommunicationDistance(sub),
                                         sub_pos[3], g)
  IN [ events |->
         (IF current_tick % 5 = 0
            THEN << SimulationEvent(current_tick, "communication",
                                    quality.data, TRUE,
                                    GetSimulationTimestamp(ctl)) >>
            ELSE << >>)
         \o (IF current_tick % 10 = 0
               THEN << SimulationEvent(current_tick, "mission_update",
                                       GetStatusSummary(sub, objs, gm), TRUE,
                                       GetSimulationTimestamp(ctl)) >>
               ELSE << >>),
       rng |-> IF current_tick % 5 = 0 THEN quality.rng ELSE g ]

\* the events simulate_tick adds every 10 and every 5 ticks
PeriodicEvents(ctl, link, cm, sub, objs, gm, sub_pos, current_tick, g) ==
  LET quality == GetCommunicationQuality(link, cm, CommunicationDistance(sub),
                                         sub_pos[3], g)
  IN [ events |->
         (IF current_tick % 10 = 0
            THEN << SimulationEvent(current_tick, "mission_update",
                                    GetStatusSummary(sub, objs, gm), TRUE,
                                    GetSimulationTimestamp(ctl)) >>
            ELSE << >>)
         \o (IF current_tick % 5 = 0
               THEN << SimulationEvent(current_tick, "communication",
                                       quality.data, TRUE,
                                       GetSimulationTimestamp(ctl)) >>
               ELSE << >>),
       rng |-> IF current_tick % 5 = 0 THEN quality.rng ELSE g ]

\* _generate_final_report: the summary and the communication statistics
GenerateFinalReport(ctl, sub, objs, gm, evs) ==
  [ total_ticks |-> gm.tick,
    total_distance_traveled |-> gm.total_distance_traveled,
    objects_detected |-> gm.objects_detected, total_objects |-> Len(objs),
    final_position |-> <<sub.x, sub.y, sub.z>>, final_depth |-> sub.depth,
    final_heading |-> sub.heading,
    commands_sent |-> ctl.total_commands_sent,
    commands_received |-> ctl.total_commands_received,
    status_sent |-> ctl.total_status_sent,
    status_received |-> ctl.total_status_received,
    total_communication_events |-> ctl.communication_events,
    command_type_counts |-> ctl.command_type_counts,
    detection_events |-> ctl.detection_events, total_events |-> Len(evs) ]

\* nothing reported yet
NoReport == GenerateFinalReport(NewController(0), [x |-> 0, y |-> 0, z |-> 0,
              depth |-> 0, heading |-> 0], <<>>,
              [tick |-> 0, total_distance_traveled |-> 0, objects_detected |-> 0],
              <<>>)

\* run_simulation(num_ticks) on a controller built with the generator seeded:
\* the configuration, the loop variables and where the run stands
NewRun(seed, world_size, link, num_ticks, runs) ==
  [ seed |-> seed, world_size |-> world_size, link |-> link,
    num_ticks |-> num_ticks, tick |-> 0, out_of_bounds_warning_count |-> 0,
    last_bounds_warning_tick |-> -100,
    phase |-> IF num_ticks > 0 THEN "running" ELSE "ended", runs |-> runs ]

\* no run
NoRun == [NewRun(0, 0, "", 0, 0) EXCEPT !.phase = "none"]

\* no earlier run
NoPrev == [events |-> <<>>, report |-> NoReport]


\* a loop that warns in every out-of-bounds tick, whatever the tick of the
\* last warning
LoopStep_WarnsEveryTick(r, in_bounds) ==
  LET count == IF in_bounds THEN 0 ELSE r.out_of_bounds_warning_count + 1
  IN [r EXCEPT !.tick = @ + 1,
               !.out_of_bounds_warning_count = count,
               !.last_bounds_warning_tick = IF in_bounds THEN @ ELSE r.tick,
               !.phase = IF count > 10 \/ r.tick + 1 >= r.num_ticks
                           THEN "ended" ELSE "running"]

\* the loop variables after an iteration of run_simulation: the warning is
\* counted every 100 ticks at most, the count is reset in bounds, and the
\* loop is left after more than 10 warnings or when num_ticks are done
LoopStep(r, in_bounds) ==
  LET warn == ~in_bounds /\ r.tick - r.last_bounds_warning_tick >= 100
      count == IF in_bounds THEN 0
               ELSE IF warn THEN r.out_of_bounds_warning_count + 1
               ELSE r.out_of_bounds_warning_count
  IN [r EXCEPT !.tick = @ + 1,
               !.out_of_bounds_warning_count = count,
               !.last_bounds_warning_tick = IF warn THEN r.tick ELSE @,
               !.phase = IF (warn /\ count > 10) \/ r.tick + 1 >= r.num_ticks
                           THEN "ended" ELSE "running"]

\* a controller with its game state, link model and planner, as the fields
\* of one object; id names it
Instance(id, sub, objs, gm, cm, t, pl, ctl, evs, r, rep) ==
  [ id |-> id, submarine |-> sub, objects |-> objs, game |-> gm, comm |-> cm,
    transmission |-> t, planner |-> pl, controller |-> ctl, events |-> evs,
    run |-> r, report |-> rep ]

\* no second controller
NoOther ==
  [ paired |-> FALSE,
    held |-> Instance("none", [x |-> 0, y |-> 0, z |-> 0], <<>>, [tick |-> 0],
                      NewComm, NoTransmission, NewPlanner, NewController(0),
                      <<>>, NoRun, NoReport) ]

\* no controller built
IdleEngine ==
  /\ planner = NewPlanner
  /\ controller = NewController(0)
  /\ events = <<>>
  /\ run = NoRun
  /\ prev = NoPrev
  /\ report = NoReport
  /\ other = NoOther

-----------------------------------------------------------------------------
(* The vehicle driven command by command *)

\* generator states the runs start from (random.seed)
SubSeeds == {11, 137}

\* vehicle states a run passes through, as <<x, y, heading, depth>>: on the
\* surface at the ship, by the world corner near the sea floor, mid-water
SubStarts == { <<0, 0, 0, 0>>, <<3980, -3990, 0, 199>>, <<-120, 260, 353, 30>> }

\* parameters handed to execute_command (signed 16-bit)
SubParams == {INT16_MIN, -300, -7, 3, INT16_MAX}

Commands == {MOVE, TURN, STOP, ASCEND, DESCEND, REPORT_STATUS}

\* STOP and REPORT_STATUS never read their parameter
ParamsOf(cmd) == IF cmd \in {STOP, REPORT_STATUS} THEN {0} ELSE SubParams

NoCall == [op |-> "none", cmd |-> 0, param |-> 0, accepted |-> FALSE,
           reason |-> "", raised |-> FALSE]

\* GameState(world_size) as built, or with the vehicle at one of SubStarts
InitSub ==
  \E sd \in SubSeeds :
    LET gs == NewGameState(1000, sd)
    IN /\ \/ submarine = gs.submarine
          \/ \E st \in SubStarts :
               submarine = NewSubmarine(st[1], st[2], gs.submarine.z, st[3],
                                        st[4], gs.rng).sub
       /\ objects = gs.objects
       /\ game = gs.game
       /\ rng = gs.rng
       /\ ret = NoCall
       /\ steps = 0
       /\ packet = NoPacket
       /\ decoded = NoParse
       /\ comm = NewComm
       /\ transmission = NoTransmission
       /\ decision = NoDecision
       /\ clock = 0
       /\ IdleEngine

\* one call submarine.execute_command(cmd, param, ship.position); an exception
\* the call raised is not caught and ends the run
DoExecuteCommand(cmd, param) ==
  /\ steps < MaxSteps
  /\ ~ret.raised
  /\ LET o == ExecuteCommand(submarine, rng, cmd, param)
     IN /\ submarine' = o.sub
        /\ rng' = o.rng
        /\ ret' = [op |-> "execute_command", cmd |-> cmd, param |-> param,
                   accepted |-> o.accepted, reason |-> o.reason,
                   raised |-> o.raised]
  /\ steps' = steps + 1
  /\ UNCHANGED <<objects, game, packetVars, linkVars, clock, engineVars>>

\* one call game_state.update_tick()
DoUpdateTick ==
  /\ steps < MaxSteps
  /\ ~ret.raised
  /\ LET u == UpdateTick(submarine, objects, game, rng)
     IN /\ submarine' = u.submarine
        /\ objects' = u.objects
        /\ game' = u.game
        /\ rng' = u.rng
  /\ ret' = [NoCall EXCEPT !.op = "update_tick"]
  /\ steps' = steps + 1
  /\ UNCHANGED <<packetVars, linkVars, clock, engineVars>>

NextSub ==
  \/ \E cmd \in Commands : \E param \in ParamsOf(cmd) : DoExecuteCommand(cmd, param)
  \/ DoUpdateTick

SpecSub == InitSub /\ [][NextSub]_vars

-----------------------------------------------------------------------------
(* A MissionPlanner on the game state, asked command by command *)

\* MissionPlanner(game_state) on a game state as built, or with the vehicle
\* at one of SubStarts or in the state <<x, y, heading, depth>> the run of
\* seed 156 is in at tick 2500, 4.2 m inside the 400 m boundary of the
\* safety check and heading out
InitPlan ==
  \E sd \in SubSeeds :
    LET gs == NewGameState(1000, sd)
    IN /\ \/ submarine = gs.submarine
          \/ \E st \in SubStarts \cup { <<59, -3958, 251, 44>> } :
               submarine = NewSubmarine(st[1], st[2], gs.submarine.z, st[3],
                                        st[4], gs.rng).sub
       /\ objects = gs.objects
       /\ game = gs.game
       /\ rng = gs.rng
       /\ ret = NoCall
       /\ steps = 0
       /\ packet = NoPacket
       /\ decoded = NoParse
       /\ comm = NewComm
       /\ transmission = NoTransmission
       /\ decision = NoDecision
       /\ clock = 0
       /\ IdleEngine

\* a get_next_command whose planner applies the command it proposes
DoGetNextCommand_Applies ==
  /\ steps < MaxSteps
  /\ ~ret.raised
  /\ LET next == GetNextCommand(planner, submarine, game, rng)
         o == ExecuteCommand(submarine, next.rng, next.cmd, next.param)
     IN /\ planner' = next.planner
        /\ rng' = o.rng
        /\ submarine' = o.sub
        /\ ret' = [NoCall EXCEPT !.op = "get_next_command", !.cmd = next.cmd,
                                 !.param = next.param]
  /\ steps' = steps + 1
  /\ UNCHANGED <<objects, game, packetVars, linkVars, clock, controller,
                 events, run, prev, report, other>>

\* one call mission_planner.get_next_command(): the planner and the generator
\* move, the command and its parameter are returned
DoGetNextCommand ==
  /\ steps < MaxSteps
  /\ ~ret.raised
  /\ LET next == GetNextCommand(planner, submarine, game, rng)
     IN /\ planner' = next.planner
        /\ rng' = next.rng
        /\ ret' = [NoCall EXCEPT !.op = "get_next_command", !.cmd = next.cmd,
                                 !.param = next.param]
  /\ steps' = steps + 1
  /\ UNCHANGED <<vehicleVars, packetVars, linkVars, clock, controller, events,
                 run, prev, report, other>>

\* the command the planner returned handed to execute_command
DoPlanned ==
  /\ ret.op = "get_next_command"
  /\ DoExecuteCommand(ret.cmd, ret.param)

SpecPlan ==
  InitPlan /\ [][DoGetNextCommand \/ DoPlanned \/ DoUpdateTick]_vars

-----------------------------------------------------------------------------
(* Packets built, altered on the link, and parsed *)

\* bytes altered on the link per packet
MaxAltered == 2

\* missing-sequence lists given to the builders
PktSeqs == { <<>>, <<7>>, <<7, 300>> }

\* command parameters given to build_cmd_packet
PktParams == {INT16_MIN, -1, 0, 258, INT16_MAX}

\* opcodes given to build_cmd_packet (the byte values of the six commands)
PktOpcodes == {MOVE, TURN, STOP, ASCEND, DESCEND, REPORT_STATUS}

\* status reports given to build_status_packet:
\* <<status, depth, pressure, x, y, z, heading>>
PktStatuses == { <<1, 0, 1013, 0, 0, 0, 0>>, <<0, 200, 21278, 400, -400, 50, 359>>,
                 <<1, 44, 5471, -10, 25, 14, 175>> }

\* values a byte is altered to
PktBytes == {0, 1, 255}

InitPkt ==
  /\ \E sd \in SubSeeds :
       LET gs == NewGameState(1000, sd)
       IN /\ submarine = gs.submarine /\ objects = gs.objects
          /\ game = gs.game /\ rng = gs.rng
  /\ ret = NoCall
  /\ steps = 0
  /\ packet = NoPacket
  /\ decoded = NoParse
  /\ comm = NewComm
  /\ transmission = NoTransmission
  /\ decision = NoDecision
  /\ clock = 0
  /\ IdleEngine

\* the ship builds a command packet
BuildCmd(cmd_code, param, seqs) ==
  /\ packet.kind = "none"
  /\ packet' = [kind |-> "cmd", args |-> <<cmd_code, param>>, missing |-> seqs,
                bytes |-> BuildCmdPacket(cmd_code, param, seqs).bytes,
                intact |-> BuildCmdPacket(cmd_code, param, seqs).bytes]
  /\ decoded' = NoParse
  /\ UNCHANGED <<vehicleVars, rng, ret, steps, linkVars, clock, engineVars>>

\* the submarine builds a status packet
BuildStatus(st, seqs) ==
  /\ packet.kind = "none"
  /\ packet' = [kind |-> "status", args |-> st, missing |-> seqs,
                bytes |-> BuildStatusPacket(st[1], st[2], st[3], seqs, st[4],
                                            st[5], st[6], st[7]).bytes,
                intact |-> BuildStatusPacket(st[1], st[2], st[3], seqs, st[4],
                                             st[5], st[6], st[7]).bytes]
  /\ decoded' = NoParse
  /\ UNCHANGED <<vehicleVars, rng, ret, steps, linkVars, clock, engineVars>>

\* the bytes that differ from the packet as built
Altered(pk) == {i \in DOMAIN pk.bytes : pk.bytes[i] # pk.intact[i]}

\* the link alters one byte of the packet in flight
AlterByte(i, b) ==
  /\ packet.kind # "none"
  /\ decoded.op = "none"
  /\ i \in DOMAIN packet.bytes
  /\ packet.bytes[i] # b
  /\ Cardinality(Altered(packet) \cup {i}) <= MaxAltered
  /\ packet' = [packet EXCEPT !.bytes[i] = b]
  /\ UNCHANGED <<vehicleVars, rng, ret, steps, decoded, linkVars, clock, engineVars>>

\* the receiver parses the bytes it got
Parse ==
  /\ packet.kind # "none"
  /\ decoded.op = "none"
  /\ decoded' = IF packet.kind = "cmd" THEN ParseCmdPacket(packet.bytes)
                ELSE ParseStatusPacket(packet.bytes)
  /\ UNCHANGED <<vehicleVars, rng, ret, steps, packet, linkVars, clock, engineVars>>

NextPkt ==
  \/ \E c \in PktOpcodes, p \in PktParams, q \in PktSeqs : BuildCmd(c, p, q)
  \/ \E st \in PktStatuses, q \in PktSeqs : BuildStatus(st, q)
  \/ \E i \in 1..20, b \in PktBytes : AlterByte(i, b)
  \/ Parse

SpecPkt == InitPkt /\ [][NextPkt]_vars

\* the checksum stored in the packet's last two bytes differs from the 16-bit
\* sum of the bytes before them
ChecksumMismatch(data) ==
  ToU16(data[Len(data) - 1], data[Len(data)])
    # Crc16(SubSeq(data, 1, Len(data) - 2))

\* C4: for every opcode of the six commands and every signed 16-bit param,
\* parse_cmd_packet(build_cmd_packet(opcode, param)) returns the same opcode
\* and param with crc_valid = true.
C4_CmdRoundTrip ==
  (decoded.op = "parse_cmd_packet" /\ packet.bytes = packet.intact)
    => ( /\ decoded.raised = ""
         /\ decoded.fields = packet.args
         /\ decoded.crc_valid )

\* C5: decoding a command or status packet whose stored checksum no longer
\* equals the sum of the preceding bytes returns a record with
\* crc_valid = false and never raises, whichever byte was altered.
C5_MismatchReported ==
  (decoded.op # "none" /\ Altered(packet) # {} /\ ChecksumMismatch(packet.bytes))
    => (decoded.raised = "" /\ ~decoded.crc_valid)

-----------------------------------------------------------------------------
(* Transmissions simulated one by one *)

\* transmissions per behaviour
MaxPackets == 2

\* readings of the wall clock
MaxClock == 2

\* calls of simulate_transmission: the packet size in bytes (a command, a
\* long report) and the submarine's position in dm (next to the ship, mid
\* range, at the edge of the reliable range, far beyond it)
TxCases == { <<6, <<30, -40, 120>> >>, <<600, <<30, -40, 120>> >>,
             <<6, <<2500, -3000, 480>> >>, <<600, <<7000, 7000, 900>> >>,
             <<600, <<-19000, 0, 100>> >> }

\* sea states and temperatures handed to update_environment
TxEnvironments == { <<1, 12000>>, <<9, 18000>> }

InitTx ==
  /\ \E sd \in SubSeeds :
       LET gs == NewGameState(1000, sd)
       IN /\ submarine = gs.submarine /\ objects = gs.objects
          /\ game = gs.game /\ rng = gs.rng
  /\ ret = NoCall
  /\ steps = 0
  /\ packet = NoPacket
  /\ decoded = NoParse
  /\ comm = NewComm
  /\ transmission = NoTransmission
  /\ decision = NoDecision
  /\ clock = 0
  /\ IdleEngine

\* one call of simulate_transmission (models/communication_model.py)
Transmit(sender, receiver, packet_type, data_size, sub_pos) ==
  /\ comm.packet_counter < MaxPackets
  /\ LET r == SimulateTransmission(comm, sender, receiver, packet_type,
                                   data_size, sub_pos, rng, clock)
     IN /\ comm' = r.comm
        /\ rng' = r.rng
        /\ transmission' = r.transmission
        /\ decision' = r.decision
  /\ UNCHANGED <<vehicleVars, ret, steps, packetVars, clock, engineVars>>

\* one call of simulate_transmission (the packaged physics-based model)
TransmitPhysics(sender, receiver, packet_type, data_size, sub_pos) ==
  /\ comm.packet_counter < MaxPackets
  /\ LET r == SimulateTransmissionPhysics(comm, sender, receiver, packet_type,
                                          data_size, sub_pos, rng, clock)
     IN /\ comm' = r.comm
        /\ rng' = r.rng
        /\ transmission' = r.transmission
        /\ decision' = r.decision
  /\ UNCHANGED <<vehicleVars, ret, steps, packetVars, clock, engineVars>>

\* one call of update_environment
SetEnvironment(sea_state, temperature) ==
  /\ comm.packet_counter < MaxPackets
  /\ comm' = UpdateEnvironment(comm, sea_state, temperature)
  /\ comm' # comm
  /\ UNCHANGED <<vehicleVars, rng, ret, steps, packetVars, transmission, decision,
                 clock, engineVars>>

\* one call of update_physics_config
SetPhysicsConfig(config) ==
  /\ comm.packet_counter < MaxPackets
  /\ comm' = UpdatePhysicsConfig(comm, config)
  /\ comm' # comm
  /\ UNCHANGED <<vehicleVars, rng, ret, steps, packetVars, transmission, decision,
                 clock, engineVars>>

\* the wall clock advances
Tock ==
  /\ clock < MaxClock
  /\ clock' = clock + 1
  /\ UNCHANGED <<vehicleVars, rng, ret, steps, packetVars, linkVars, engineVars>>

\* configurations handed to update_physics_config: the two presets, one
\* whose size_adjustment_factor is zero, one with a baseline above every
\* packet and a size penalty below 1
PhysicsConfigs ==
  { DEFAULT_CONFIG, REALISTIC_TESTING_CONFIG,
    [DEFAULT_CONFIG EXCEPT !.size_adjustment_factor = 0],
    [REALISTIC_TESTING_CONFIG EXCEPT !.baseline_packet_size = 1000,
                                     !.max_size_penalty = 500] }

NextTx ==
  \/ \E c \in TxCases :
       \/ Transmit("ship", "submarine", "command", c[1], c[2])
       \/ Transmit("submarine", "ship", "status", c[1], c[2])
  \/ \E c \in TxCases :
       \/ TransmitPhysics("ship", "submarine", "command", c[1], c[2])
       \/ TransmitPhysics("submarine", "ship", "status", c[1], c[2])
  \/ \E e \in TxEnvironments : SetEnvironment(e[1], e[2])
  \/ \E c \in PhysicsConfigs : SetPhysicsConfig(c)
  \/ Tock

SpecTx == InitTx /\ [][NextTx]_vars

-----------------------------------------------------------------------------
(* The engine: run_simulation tick by tick, the report, the run repeated *)

\* ticks per run (num_ticks)
MaxTicks == 12

\* states the generator is seeded to before the controller is built
EngineSeeds == {156}

\* world sizes the controller is built with, in metres
WorldSizes == {1000, 100}

\* the communication model the controller is built with: the one next to the
\* engine, or the physics-based one of the packaged application
Links == {"heuristic", "physics"}

\* the generator seeded, SimulationController(world_size) built at wall-clock
\* a SimulationController constructed under the seed sd, the submarine's
\* max_safe_distance_from_ship set by the caller as the application does
\* (the dataclass default where it sets none), and run_simulation entered
\* with num_ticks
Start(sd, ws, link, num_ticks, safe) ==
  LET gs == NewGameState(ws, sd)
  IN /\ submarine = [gs.submarine EXCEPT !.max_safe_distance_from_ship = safe]
     /\ objects = gs.objects
     /\ game = gs.game /\ rng = gs.rng
     /\ ret = NoCall
     /\ steps = 0
     /\ packet = NoPacket
     /\ decoded = NoParse
     /\ comm = NewComm
     /\ transmission = NoTransmission
     /\ decision = NoDecision
     /\ clock = 0
     /\ planner = NewPlanner
     /\ controller = NewController(0)
     /\ events = <<>>
     /\ run = NewRun(sd, ws, link, num_ticks, 1)
     /\ prev = NoPrev
     /\ report = NoReport
     /\ other = NoOther

Init ==
  \E sd \in EngineSeeds, ws \in WorldSizes, link \in Links :
    Start(sd, ws, link, MaxTicks, max_safe_distance_from_ship)

\* a tick that samples the submarine position again, after the execution,
\* for the status transmission
RunTick_StatusFromNewPosition ==
  /\ run.phase = "running"
  /\ \E begin \in {BeginTick(controller, planner, comm, submarine, game, rng)} :
     \E sent \in {Transmission(run.link, begin.comm, "ship", "submarine",
                               "command", Len(RawCmd(begin.cmd, begin.param)),
                               <<submarine.x, submarine.y, submarine.z>>,
                               begin.rng, clock)} :
     \E command \in {SendCommand(begin.controller, sent.transmission, begin.cmd,
                                 begin.param, submarine, game)} :
     \E executed \in {Execute(command.controller, sent.transmission, begin.cmd,
                              begin.param, submarine, sent.rng)} :
     \E detections \in {DetectionEvents(executed.controller, executed.submarine,
                                        objects, game.tick)} :
     \E updated \in {UpdateTick(executed.submarine,
                                DetectObjects(executed.submarine, objects),
                                game, executed.rng)} :
     \E answered \in {Transmission(run.link, sent.comm, "submarine", "ship",
                                   "status",
                                   Len(RawStatus(executed.command_executed,
                                                 updated.submarine)),
                                   <<updated.submarine.x, updated.submarine.y,
                                     updated.submarine.z>>,
                                   updated.rng, clock)} :
     \E status \in {SendStatus([executed.controller EXCEPT
                                  !.detection_events = @ + Len(detections)],
                               answered.transmission, executed,
                               updated.submarine, updated.objects, game.tick)} :
     \E periodic \in {PeriodicEvents(status.controller, run.link, answered.comm,
                                     updated.submarine, updated.objects,
                                     updated.game,
                                     <<submarine.x, submarine.y, submarine.z>>,
                                     game.tick, answered.rng)} :
       /\ submarine' = updated.submarine
       /\ objects' = updated.objects
       /\ game' = updated.game
       /\ rng' = periodic.rng
       /\ comm' = answered.comm
       /\ transmission' = answered.transmission
       /\ decision' = answered.decision
       /\ planner' = begin.planner
       /\ controller' = status.controller
       /\ events' = events \o <<command.event>> \o detections
                      \o <<status.event>> \o periodic.events
       /\ run' = LoopStep(run, IsSubmarineInBounds(updated.submarine,
                                                   updated.game))
  /\ UNCHANGED <<ret, steps, packetVars, clock, prev, report, other>>

\* one iteration of the loop of run_simulation: simulate_tick from its first
\* statement to self.events.extend(tick_events), then the bounds bookkeeping
RunTick ==
  /\ run.phase = "running"
  /\ \E begin \in {BeginTick(controller, planner, comm, submarine, game, rng)} :
     \E sent \in {Transmission(run.link, begin.comm, "ship", "submarine",
                               "command", Len(RawCmd(begin.cmd, begin.param)),
                               <<submarine.x, submarine.y, submarine.z>>,
                               begin.rng, clock)} :
     \E command \in {SendCommand(begin.controller, sent.transmission, begin.cmd,
                                 begin.param, submarine, game)} :
     \E executed \in {Execute(command.controller, sent.transmission, begin.cmd,
                              begin.param, submarine, sent.rng)} :
     \E detections \in {DetectionEvents(executed.controller, executed.submarine,
                                        objects, game.tick)} :
     \E updated \in {UpdateTick(executed.submarine,
                                DetectObjects(executed.submarine, objects),
                                game, executed.rng)} :
     \E answered \in {Transmission(run.link, sent.comm, "submarine", "ship",
                                   "status",
                                   Len(RawStatus(executed.command_executed,
                                                 updated.submarine)),
                                   <<submarine.x, submarine.y, submarine.z>>,
                                   updated.rng, clock)} :
     \E status \in {SendStatus([executed.controller EXCEPT
                                  !.detection_events = @ + Len(detections)],
                               answered.transmission, executed,
                               updated.submarine, updated.objects, game.tick)} :
     \E periodic \in {PeriodicEvents(status.controller, run.link, answered.comm,
                                     updated.submarine, updated.objects,
                                     updated.game,
                                     <<submarine.x, submarine.y, submarine.z>>,
                                     game.tick, answered.rng)} :
       /\ submarine' = updated.submarine
       /\ objects' = updated.objects
       /\ game' = updated.game
       /\ rng' = periodic.rng
       /\ comm' = answered.comm
       /\ transmission' = answered.transmission
       /\ decision' = answered.decision
       /\ planner' = begin.planner
       /\ controller' = status.controller
       /\ events' = events \o <<command.event>> \o detections
                      \o <<status.event>> \o periodic.events
       /\ run' = LoopStep(run, IsSubmarineInBounds(updated.submarine,
                                                   updated.game))
  /\ UNCHANGED <<ret, steps, packetVars, clock, prev, report, other>>

\* the loop is over: return self._generate_final_report()
FinalReport ==
  /\ run.phase = "ended"
  /\ report' = GenerateFinalReport(controller, submarine, objects, game, events)
  /\ run' = [run EXCEPT !.phase = "reported"]
  /\ UNCHANGED <<vehicleVars, rng, ret, steps, packetVars, linkVars, clock,
                 planner, controller, events, prev, other>>

\* the same seed and configuration run again: the generator reseeded, a new
\* controller built, the log of the run before kept for comparison
Rerun ==
  /\ run.phase = "reported"
  /\ run.runs = 1
  /\ LET gs == NewGameState(run.world_size, run.seed)
     IN /\ submarine' = gs.submarine /\ objects' = gs.objects
        /\ game' = gs.game /\ rng' = gs.rng
  /\ comm' = NewComm
  /\ transmission' = NoTransmission
  /\ decision' = NoDecision
  /\ planner' = NewPlanner
  /\ controller' = NewController(clock)
  /\ events' = <<>>
  /\ prev' = [events |-> events, report |-> report]
  /\ report' = NoReport
  /\ run' = NewRun(run.seed, run.world_size, run.link, run.num_ticks,
                   run.runs + 1)
  /\ UNCHANGED <<ret, steps, packetVars, clock, other>>

Next ==
  \/ RunTick
  \/ FinalReport
  \/ Rerun
  \/ Tock

Spec == Init /\ [][Next]_vars

-----------------------------------------------------------------------------
(* run_simulation from its call to its report, the wall clock standing still *)

\* ticks asked of a long run: the eleventh out-of-bounds warning falls in
\* the tick numbered 1000
MaxLongTicks == 1002

\* ticks asked of the run that takes the search pattern through its whole
\* rotation, back to the first pattern at tick 2500
MaxRotationTicks == 2502

\* seed, world size, link, num_ticks and max_safe_distance_from_ship of the
\* runs; with 90 m the submarine of seed 156 crosses 0.8 x 0.7 x 90 m in
\* its first ticks; the run of seed 72 reaches tick 500 in the middle of a
\* queued sequence; in the worlds of size 2 and 13 the safe boundary is 0.8 m
\* and 5.2 m from the ship, below and above the 5 m of an emergency MOVE
RunConfigs ==
  { <<11, 2, "heuristic", MaxLongTicks, max_safe_distance_from_ship>>,
    <<11, 13, "heuristic", MaxLongTicks, max_safe_distance_from_ship>>,
    <<156, 100, "heuristic", MaxTicks, max_safe_distance_from_ship>>,
    <<156, 1000, "physics", MaxTicks, max_safe_distance_from_ship>>,
    <<156, 1000, "physics", MaxTicks, 90>>,
    <<156, 1000, "heuristic", MaxRotationTicks, max_safe_distance_from_ship>>,
    <<72, 100, "heuristic", MaxLongTicks, max_safe_distance_from_ship>> }

InitRun == \E c \in RunConfigs : Start(c[1], c[2], c[3], c[4], c[5])

NextRun == RunTick \/ FinalReport

SpecRun == InitRun /\ [][NextRun]_vars

\* run_simulation runs to its return: while the loop is on it takes its next
\* iteration (the loop variables step on, whether the tick ended in bounds or
\* not), and when the loop is over the report is built
SpecRunFair ==
  /\ InitRun /\ [][NextRun]_vars
  /\ WF_run(/\ run.phase = "running"
            /\ run' \in {LoopStep(run, TRUE), LoopStep(run, FALSE)})
  /\ WF_run(run.phase = "ended" /\ run' = [run EXCEPT !.phase = "reported"])

\* ticks without a delivered command after which the link counts as silent
MaxSilence == 10

-----------------------------------------------------------------------------
(* Two controllers in one process, their ticks interleaved by the caller *)

\* ticks asked of each of the two controllers
MaxPairTicks == 3

InitPair ==
  \E link \in Links :
    Start(156, 100, link, MaxPairTicks, max_safe_distance_from_ship)

\* after the run of one controller alone: the generator reseeded to the same
\* state, controller a built, then controller b; both draw their game state
\* from the one generator of the random module.  The log of the run alone is
\* kept for comparison.
BuildPair ==
  /\ run.phase = "reported"
  /\ ~other.paired
  /\ LET a == NewGameState(run.world_size, run.seed)
         b == NewGameState(run.world_size, a.rng)
         r == NewRun(run.seed, run.world_size, run.link, run.num_ticks,
                     run.runs + 1)
     IN /\ submarine' = a.submarine /\ objects' = a.objects /\ game' = a.game
        /\ rng' = b.rng
        /\ run' = r
        /\ other' = [ paired |-> TRUE,
                      held |-> Instance("b", b.submarine, b.objects, b.game,
                                        NewComm, NoTransmission, NewPlanner,
                                        NewController(clock), <<>>, r, NoReport) ]
  /\ comm' = NewComm
  /\ transmission' = NoTransmission
  /\ decision' = NoDecision
  /\ planner' = NewPlanner
  /\ controller' = NewController(clock)
  /\ events' = <<>>
  /\ prev' = [events |-> events, report |-> report]
  /\ report' = NoReport
  /\ UNCHANGED <<ret, steps, packetVars, clock>>

\* the caller turns to the other controller: its next simulate_tick is the
\* next to run
Switch ==
  /\ other.paired
  /\ other.held.run.phase = "running"
  /\ submarine' = other.held.submarine
  /\ objects' = other.held.objects
  /\ game' = other.held.game
  /\ comm' = other.held.comm
  /\ transmission' = other.held.transmission
  /\ planner' = other.held.planner
  /\ controller' = other.held.controller
  /\ events' = other.held.events
  /\ run' = other.held.run
  /\ report' = other.held.report
  /\ other' = [ paired |-> TRUE,
                held |-> Instance(IF other.held.id = "a" THEN "b" ELSE "a",
                                  submarine, objects, game, comm, transmission,
                                  planner, controller, events, run, report) ]
  /\ UNCHANGED <<rng, ret, steps, packetVars, decision, clock, prev>>

NextPair == RunTick \/ FinalReport \/ BuildPair \/ Switch

SpecPair == InitPair /\ [][NextPair]_vars

-----------------------------------------------------------------------------
(* Properties of the vehicle *)

\* the last step was a call of execute_command that returned
Returned == ret.op = "execute_command" /\ ~ret.raised

\* C1: from a depth within [min_depth, max_depth], after any sequence of
\* execute_command calls with ASCEND or DESCEND and any signed 16-bit
\* parameter, min_depth <= depth <= max_depth still holds.
C1_DepthWithinBounds ==
  min_depth <= submarine.depth /\ submarine.depth <= max_depth

C3_RejectedLeavesState ==
  [][ (ret'.op = "execute_command" /\ ~ret'.raised /\ ~ret'.accepted)
      => submarine' = submarine ]_vars

\* C3's case: a command that passed the safety check was refused because of
\* the operating state, on a vehicle that is not idle
C3_Witness ==
  /\ Returned /\ ~ret.accepted /\ ret.reason = "command_not_executed"
  /\ submarine.state \in {"moving", "turning", "ascending", "descending"}

C11_TurnAlwaysAccepted ==
  [][ (ret'.op = "execute_command" /\ ret'.cmd = TURN)
      => ( /\ ret'.accepted
           /\ submarine'.heading = TurnedHeading(submarine.heading, ret'.param) ) ]_vars

-----------------------------------------------------------------------------
(* Properties of the link *)

\* C8: every PacketTransmission returned by simulate_transmission is either
\* lost (is_lost and arrival_time unset) or delivered (not is_lost and
\* arrival_time = transmission_time + propagation_delay + multipath_delay).
C8_LostOrDelivered ==
  transmission.packet_id[3] > 0 =>
    \/ transmission.is_lost /\ transmission.arrival_time = None
    \/ /\ ~transmission.is_lost
       /\ transmission.arrival_time =
            transmission.transmission_time + transmission.propagation_delay
              + transmission.multipath_delay

\* C8's case: a transmission within the reliable range, sent after the clock
\* advanced, that took a measurable time to propagate and was lost
C8_Witness ==
  /\ transmission.is_lost /\ transmission.loss_reason = "good_snr"
  /\ transmission.transmission_time > 0
  /\ transmission.propagation_delay > 0

-----------------------------------------------------------------------------
(* Properties of the engine *)

\* C6: two runs of the engine with the same seed, configuration and tick
\* count produce the same event log: the same events with the same tick,
\* kind, payload (transmission_time and arrival_time included) and timestamp.
C6_SameEventLog ==
  (run.runs = 2 /\ run.phase = "reported") => events = prev.events

\* C7: after every simulate_tick total_commands_sent = total_status_sent =
\* game_state.tick, and the final report of run_simulation has commands_sent =
\* status_sent = total_ticks = the ticks run, whether or not packets were lost.
C7_CommandAndStatusPerTick ==
  /\ controller.total_commands_sent = game.tick
  /\ controller.total_status_sent = game.tick
  /\ run.phase = "reported" =>
       /\ report.commands_sent = report.total_ticks
       /\ report.status_sent = report.total_ticks
       /\ report.total_ticks = run.tick

\* C7's case: a run reported in which a command and a status were lost
C7_Witness ==
  /\ run.phase = "reported"
  /\ report.total_ticks = run.num_ticks
  /\ report.commands_received < report.commands_sent
  /\ report.status_received < report.status_sent

\* C10: within a run no step sets an object's detected flag back to false,
\* and a tick leaves an object detected exactly if it was detected before
\* or the tick's detection step finds it within detection_range.
C10_DetectedMonotonic ==
  [][ /\ run'.runs = run.runs =>
           \A i \in DOMAIN objects :
             objects[i].detected => objects'[i].detected
      /\ game'.tick = game.tick + 1 =>
           \A i \in DOMAIN objects :
             objects'[i].detected <=>
               (objects[i].detected \/ i \in InRange(submarine', objects')) ]_vars

\* C10's case: an object detected in an earlier tick and out of range now
C10_Witness ==
  /\ run.phase = "running"
  /\ \E i \in DOMAIN objects :
       objects[i].detected /\ i \notin InRange(submarine, objects)

\* C12: a delivered MOVE whose projected position is within the safe distance
\* is refused for the world bounds exactly when the projected |x| or |y|
\* exceeds half the world size the run was configured with.
C12_WorldBoundFollowsWorldSize ==
  [][ game'.tick = game.tick + 1 =>
        LET command == events'[Len(events) + 1]
            status == CHOOSE e \in { events'[i] : i \in (Len(events) + 1)..Len(events') } :
                        e.event_type = "status"
            distance == Min(command.data.param, speed)
            new_x == submarine.x + DispDm(distance, Cos1000(submarine.heading))
            new_y == submarine.y + DispDm(distance, Sin1000(submarine.heading))
            half_extent == (run.world_size * 10) \div 2
        IN ( /\ command.data.command = "MOVE"
             /\ command.success
             /\ ~HypotExceeds(new_x, new_y, submarine.max_safe_distance_from_ship * 10) )
           => ( status.data.execution_reason = "move_would_exceed_world_bounds"
                  <=> (Abs(new_x) > half_extent \/ Abs(new_y) > half_extent) ) ]_vars

C14_TwoDrawsPerTransmission ==
  [][ comm'.packet_counter = comm.packet_counter + 1 =>
        /\ transmission'.signal_strength =
             CalculateMultipathEffects(0, 0, RngNext(rng))[2]
        /\ 800 <= transmission'.signal_strength
        /\ transmission'.signal_strength <= 1000
        /\ rng' = RngAfter(rng, 2) ]_vars

\* controller a of a pair, wherever the caller stands
ControllerA ==
  IF other.held.id = "a" THEN other.held
  ELSE Instance("a", submarine, objects, game, comm, transmission, planner,
                controller, events, run, report)

\* C15: with the ticks of two controllers interleaved in any order, each
\* controller's event log is the log it produces when it runs alone.
C15_RunsIsolated ==
  (other.paired /\ ControllerA.run.phase # "running")
    => ControllerA.events = prev.events

\* C16: the probability calculate_packet_loss_probability returns to
\* simulate_transmission is within [0, 0.99] for every configuration, packet
\* size and distance of at least 1 m, the fallback of a numeric fault and
\* packets below the baseline or beyond the largest size penalty included.
C16_LossProbabilityBounded ==
  0 <= decision.loss_prob /\ decision.loss_prob <= 99000

\* C16's case: the packaged model, a packet beyond the largest size penalty
\* at a range where the adjusted probability meets the cap
C16_Witness ==
  /\ decision.loss_reason
       \in {"very_low_snr", "low_snr", "moderate_snr", "acceptable_snr"}
  /\ transmission.data_size
       > comm.physics_config.baseline_packet_size
           + comm.physics_config.size_adjustment_factor
  /\ decision.loss_prob = 99000


\* C17: in simulate_transmission the packet is lost if and only if the draw
\* of the loss decision is below the loss probability, whatever the draw and
\* the probability.
C17_LostIffDrawBelowProbability ==
  transmission.sender # "" =>
    (transmission.is_lost
       <=> decision.r * 100000 < decision.loss_prob * RngModulus)


\* C18: in a tick whose command is lost execute_command is not called: the
\* submarine's position, heading and depth end the tick as they began it, the
\* status reports "packet_lost" with status code 0 and total_commands_received
\* stays; in a tick whose command is delivered execute_command is called once
\* with the tick's command: the vehicle ends the tick where one execution of
\* that command puts it, the status carries that execution's outcome and
\* total_commands_received grows by one.
C18_LostCommandNotExecuted ==
  [][ game'.tick = game.tick + 1 =>
        LET command == events'[Len(events) + 1]
            status == CHOOSE e \in { events'[i] : i \in (Len(events) + 1)..Len(events') } :
                        e.event_type = "status"
            cmd == CHOOSE c \in Commands : CommandName(c) = command.data.command
            once == ExecuteCommand(submarine, rng, cmd, command.data.param)
            Pose(sub) == <<sub.x, sub.y, sub.z, sub.heading, sub.depth>>
        IN /\ command.event_type = "command"
           /\ command.data.link.lost
                => /\ Pose(submarine') = Pose(submarine)
                   /\ status.data.execution_reason = "packet_lost"
                   /\ status.data.status_code = 0
                   /\ controller'.total_commands_received
                        = controller.total_commands_received
                   /\ controller'.command_type_counts
                        = controller.command_type_counts
           /\ ~command.data.link.lost
                => /\ Pose(submarine') = Pose(once.sub)
                   /\ status.data.execution_reason = once.reason
                   /\ status.data.status_code = (IF once.accepted THEN 1 ELSE 0)
                   /\ controller'.total_commands_received
                        = controller.total_commands_received + 1 ]_vars

\* C18's case: a run in which one command was lost and another, delivered,
\* moved the submarine
C18_Witness ==
  /\ \E i \in DOMAIN events :
       /\ events[i].event_type = "status"
       /\ events[i].data.execution_reason = "packet_lost"
  /\ \E i \in DOMAIN events :
       /\ events[i].event_type = "status"
       /\ events[i].data.execution_reason = "move_executed"


\* C19: get_next_command applies a strict priority.  Out of the world bounds
\* the command is the emergency return (a TURN toward the ship's bearing when
\* the heading is more than 5 degrees off it, else a MOVE of at most 10 m),
\* whatever the distance and the queued sequence; else, farther from the ship
\* than 0.8 x max_safe_distance x movement_aggressiveness, it is the return to
\* the ship (tolerance 10 degrees, MOVE of at most 30 m); both leave the
\* queued sequence and its cursor as they were.  Only otherwise is the
\* command the one under the cursor of the queued sequence.
C19_PlannerPriority ==
  [][ game'.tick = game.tick + 1 =>
        LET command == events'[Len(events) + 1]
            issued == <<command.data.command, command.data.param>>
            Named(p) == <<CommandName(p.cmd), p.param>>
            queue_kept ==
              /\ planner'.commands_in_sequence = planner.commands_in_sequence
              /\ planner'.sequence_index = planner.sequence_index
        IN IF ~IsSubmarineInBounds(submarine, game)
             THEN /\ issued = Named(PlanEmergencyReturn(planner, submarine, rng))
                  /\ issued[1] \in {"TURN", "MOVE"}
                  /\ queue_kept
           ELSE IF CommunicationDistance(submarine) * 10
                     > submarine.max_safe_distance_from_ship
                         * movement_aggressiveness * 8
             THEN /\ issued = Named(PlanReturnToShip(planner, submarine, rng))
                  /\ issued[1] \in {"TURN", "MOVE"}
                  /\ queue_kept
           ELSE /\ planner'.sequence_index >= 1
                /\ planner'.sequence_index <= Len(planner'.commands_in_sequence)
                /\ issued = <<CommandName(planner'.commands_in_sequence[
                                            planner'.sequence_index][1]),
                              planner'.commands_in_sequence[
                                planner'.sequence_index][2]>> ]_vars

\* C19's case: the submarine in bounds and beyond the return distance while
\* commands of the queued sequence are still to come, a tick about to start
C19_Witness ==
  /\ run.phase = "running"
  /\ IsSubmarineInBounds(submarine, game)
  /\ CommunicationDistance(submarine) * 10
       > submarine.max_safe_distance_from_ship * movement_aggressiveness * 8
  /\ planner.commands_in_sequence # <<>>
  /\ planner.sequence_index < Len(planner.commands_in_sequence)


\* C20: the engine rotates the search pattern round-robin through spiral,
\* grid, random, 3d_sweep, depth_layers every 500 ticks: the command of tick
\* t is planned under the (t div 500 mod 5)-th pattern, and the tick that
\* switches plans from a planner whose search radius, search angle,
\* depth-pattern cycle and depth-layer timer are 0; no other tick's rotation
\* touches the planner.
C20_PatternRotation ==
  [][ game'.tick = game.tick + 1 =>
        LET active == available_patterns[((game.tick \div 500) % 5) + 1]
            switched == game.tick > 0 /\ game.tick % 500 = 0
            reset == [planner EXCEPT !.search_pattern = active,
                                     !.search_radius = 0, !.search_angle = 0,
                                     !.depth_pattern_cycle = 0,
                                     !.depth_layer_timer = 0]
        IN /\ planner'.search_pattern = active
           /\ planner' = GetNextCommand(IF switched THEN reset ELSE planner,
                                        submarine, game, rng).planner
           /\ controller'.last_pattern_change_tick
                = (game.tick \div 500) * 500 ]_vars

\* C20's case: the tick numbered 500 has run, the pattern switched from
\* spiral to grid
C20_Witness ==
  /\ game.tick = 501
  /\ controller.last_pattern_change_tick = 500
  /\ planner.search_pattern = "grid"
  /\ run.num_ticks = MaxRotationTicks


\* C21: in bounds and within the return threshold the planner drains the
\* queued sequence of the active pattern: while commands are pending the
\* call returns the one under the cursor and moves the cursor by one, the
\* sequence kept and generated for the pattern active at the call (no switch
\* of pattern between the sequence and the call); a new sequence is generated
\* only when none is pending, and its first command is returned.
C21_DrainsActivePattern ==
  [][ ( /\ game'.tick = game.tick + 1
        /\ IsSubmarineInBounds(submarine, game)
        /\ ~(CommunicationDistance(submarine) * 10
               > submarine.max_safe_distance_from_ship
                   * movement_aggressiveness * 8) )
      => LET command == events'[Len(events) + 1]
             issued == <<command.data.command, command.data.param>>
             Named(c) == <<CommandName(c[1]), c[2]>>
             pending == /\ planner.commands_in_sequence # <<>>
                        /\ planner.sequence_index
                             < Len(planner.commands_in_sequence)
         IN IF pending
              THEN /\ planner'.commands_in_sequence = planner.commands_in_sequence
                   /\ planner'.sequence_index = planner.sequence_index + 1
                   /\ issued = Named(planner.commands_in_sequence[
                                       planner.sequence_index + 1])
                   /\ planner'.search_pattern = planner.search_pattern
              ELSE /\ planner'.sequence_index = 1
                   /\ planner'.commands_in_sequence # <<>>
                   /\ issued = Named(planner'.commands_in_sequence[1]) ]_vars


\* C22: every command get_next_command returns from the sequenced branch (the
\* submarine in bounds and within the return threshold) passes
\* is_safe_to_execute_command for the submarine's state at the call, the
\* first command of a newly generated sequence included.
C22_SequencedCommandSafe ==
  [][ ( /\ ret'.op = "get_next_command"
        /\ IsSubmarineInBounds(submarine, game)
        /\ ~(CommunicationDistance(submarine) * 10
               > submarine.max_safe_distance_from_ship
                   * movement_aggressiveness * 8) )
      => IsSafeToExecuteCommand(submarine, ret'.cmd, ret'.param)[1] ]_vars


C24_DerivedFollowInstalledConfig ==
  /\ comm.P0 = comm.physics_config.transmission_power_db
  /\ comm.noise_psd = comm.physics_config.noise_level_db
  /\ comm.gamma_req = comm.physics_config.required_snr_db
  /\ comm.spreading_exp = comm.physics_config.spreading_exponent
  /\ comm.anomaly_db = comm.physics_config.site_anomaly_db
  /\ comm.f_khz = comm.physics_config.frequency_hz
  /\ comm.alpha_cached = AlphaThorp(comm.physics_config.frequency_hz)
  /\ comm.anomaly_linear_cached = comm.physics_config.site_anomaly_db

\* C24's case: the configuration swapped for the testing preset (another
\* frequency, anomaly and powers than the default) and a packet sent under it
C24_Witness ==
  /\ comm.physics_config = REALISTIC_TESTING_CONFIG
  /\ comm.packet_counter > 0
  /\ decision.loss_reason
       \in {"very_low_snr", "low_snr", "moderate_snr", "acceptable_snr",
            "good_snr"}


\* C25: a tick appends to the run's log, in this order, one command event,
\* the tick's detection events, one status event, a mission_update event
\* exactly when the tick index is a multiple of 10 and a communication event
\* exactly when it is a multiple of 5, all carrying the tick index; no other
\* step of the run changes the log, and the tick indexes in the log never
\* decrease.
C25_EventOrder ==
  [][ run'.runs = run.runs =>
        IF game'.tick = game.tick + 1
          THEN LET n == Len(events)
                   added == SubSeq(events', n + 1, Len(events'))
                   periodic ==
                     (IF game.tick % 10 = 0 THEN <<"mission_update">> ELSE << >>)
                       \o (IF game.tick % 5 = 0 THEN <<"communication">>
                                                ELSE << >>)
               IN /\ Len(events') >= n + 2
                  /\ SubSeq(events', 1, n) = events
                  /\ \E k \in 0..Len(added) :
                       [i \in 1..Len(added) |-> added[i].event_type]
                         = <<"command">> \o [i \in 1..k |-> "detection"]
                             \o <<"status">> \o periodic
                  /\ \A i \in 1..Len(added) : added[i].tick = game.tick
                  /\ n > 0 => events[n].tick <= game.tick
          ELSE events' = events ]_vars

\* C25's case: a tick whose index is a multiple of 10 left all five kinds of
\* event in the log, after events of earlier ticks
C25_Witness ==
  \E i \in DOMAIN events :
    /\ events[i].event_type = "detection"
    /\ events[i].tick > 0 /\ events[i].tick % 10 = 0
    /\ events[Len(events)].event_type = "communication"
    /\ events[Len(events)].tick = events[i].tick
    /\ events[Len(events) - 1].event_type = "mission_update"


C27_IdleBetweenTicks ==
  [][ /\ submarine.state \in {"idle", "stopped"}
      /\ submarine'.state \in {"idle", "stopped"}
      /\ game'.tick = game.tick + 1 =>
           LET command == events'[Len(events) + 1]
               status == CHOOSE e \in { events'[i] :
                                          i \in (Len(events) + 1)..Len(events') } :
                           e.event_type = "status"
           IN (command.success /\ command.data.command \in {"MOVE", "TURN"})
                => status.data.execution_reason # "command_not_executed" ]_vars

\* C27's case: a MOVE delivered and executed in the tick after a tick whose
\* command was executed as well, the state idle again after it
C27_Witness ==
  /\ submarine.state = "idle"
  /\ \E i, j \in DOMAIN events :
       /\ events[i].event_type = "status" /\ events[j].event_type = "status"
       /\ events[j].tick = events[i].tick + 1
       /\ events[j].tick + 1 = game.tick
       /\ events[i].data.status_code = 1
       /\ events[i].data.execution_reason # "status_report_requested"
       /\ events[j].data.execution_reason = "move_executed"


\* C28: in a run position.z never changes; x or y change only in a tick whose
\* command is a MOVE that was delivered and accepted, the heading only in a
\* tick whose command is a TURN that was delivered and accepted; a tick whose
\* command is ASCEND or DESCEND leaves x, y, z and heading, and with them the
\* link distance and the answer of the in-bounds check, whatever depth it
\* reaches.
C28_DepthCommandsLeavePosition ==
  [][ /\ submarine'.z = submarine.z
      /\ IF game'.tick = game.tick + 1
           THEN LET command == events'[Len(events) + 1]
                    status == CHOOSE e \in { events'[i] :
                                  i \in (Len(events) + 1)..Len(events') } :
                                e.event_type = "status"
                    accepted == command.success /\ status.data.status_code = 1
                IN /\ <<submarine'.x, submarine'.y>> # <<submarine.x, submarine.y>>
                        => (command.data.command = "MOVE" /\ accepted)
                   /\ submarine'.heading # submarine.heading
                        => (command.data.command = "TURN" /\ accepted)
                   /\ command.data.command \in {"ASCEND", "DESCEND"}
                        => /\ CommunicationDistance(submarine')
                                = CommunicationDistance(submarine)
                           /\ IsSubmarineInBounds(submarine', game')
                                <=> IsSubmarineInBounds(submarine, game)
                           /\ accepted
                                => (submarine'.depth # submarine.depth
                                      \/ command.data.param = 0)
           ELSE <<submarine'.x, submarine'.y, submarine'.heading>>
                  = <<submarine.x, submarine.y, submarine.heading>> ]_vars

\* C28's case: a run in which an ASCEND and a DESCEND were executed and the
\* depth is no longer the one z was drawn with
C28_Witness ==
  /\ \E i \in DOMAIN events :
       /\ events[i].event_type = "command" /\ events[i].success
       /\ events[i].data.command = "DESCEND"
       /\ events[i + 1].event_type = "status"
       /\ events[i + 1].data.status_code = 1
       /\ events[i + 1].data.depth * 10 # events[i + 1].data.position[3]
  /\ \E i \in DOMAIN events :
       /\ events[i].event_type = "status"
       /\ events[i].data.status_code = 1
       /\ events[i - 1].event_type = "command"
       /\ events[i - 1].data.command = "ASCEND"


\* C29: the command transmission and the status transmission of a tick are
\* both simulated over the distance between the ship and the position the
\* submarine had when the tick began: both carry the propagation delay of
\* that distance, also in a tick whose MOVE was executed; the new position
\* counts from the next tick on.
C29_BothTransmissionsFromPositionBefore ==
  [][ game'.tick = game.tick + 1 =>
        LET command == events'[Len(events) + 1]
            status == CHOOSE e \in { events'[i] :
                          i \in (Len(events) + 1)..Len(events') } :
                        e.event_type = "status"
            before == Isqrt(Dist3Sq(0, 0, 0, submarine.x, submarine.y,
                                    submarine.z))
            delay == CalculatePropagationDelay(comm', before, 0, submarine.z)
        IN /\ command.data.link.propagation_delay = delay
           /\ status.data.link.propagation_delay = delay
           /\ transmission'.packet_type = "status"
           /\ transmission'.propagation_delay = delay
           /\ status.data.link.packet_id[3] = command.data.link.packet_id[3] + 1 ]_vars

\* C29's case: the status of a tick whose MOVE was executed, sent with
\* another delay than the distance after the move gives
C29_Witness ==
  /\ transmission.packet_type = "status"
  /\ events # << >>
  /\ \E i \in DOMAIN events :
       /\ events[i].event_type = "status"
       /\ events[i].tick + 1 = game.tick
       /\ events[i].data.execution_reason = "move_executed"
       /\ events[i].data.link.propagation_delay
            # CalculatePropagationDelay(comm,
                  Isqrt(Dist3Sq(0, 0, 0, submarine.x, submarine.y, submarine.z)),
                  0, submarine.z)



=============================================================================
